---- MODULE Spec2Model ----
(***************************************************************************)
(* Transfer-safeguard core of PySequence: the agent's pending-transfer     *)
(* table (stage / confirm / cancel), the Telegram confirm/cancel callback, *)
(* the daily limit ledger and the audit trail.                             *)
(*                                                                         *)
(* Conventions of the model                                                *)
(*   - text is a sequence of one-character strings, so that lower() and    *)
(*     the "in" substring test are computed, not assumed;                  *)
(*   - a dollar amount is an integer number of mills (1/1000 dollar), so   *)
(*     that round(amount_dollars * 100) is a real rounding;                *)
(*   - Python None is the value None; a pending transfer without a note    *)
(*     key has the empty note (the code reads it with .get("note", ""));   *)
(*   - uuid4() is a fresh integer id;                                      *)
(*   - calls, executed and left are history variables: they record what    *)
(*     the remote platform saw and how an id left the pending table;       *)
(*   - a date is its day number: date.isoformat() strings of four-digit    *)
(*     years compare as the dates do, which is all the code asks of them;  *)
(*   - a JSON document carries its shape (object, list, scalar, ...), so   *)
(*     that isinstance tests and attribute errors are computed;            *)
(*   - a run is one deployment: the Telegram bot or the HTTP server (Spec) *)
(*     or a process that only holds a DailyLimitTracker (TrackerSpec);     *)
(*   - ServerSpec is the HTTP server with two worker threads, each request *)
(*     taken in three steps (admission, remote call, recording): FastAPI   *)
(*     runs a synchronous route in a thread pool, so requests interleave;  *)
(*   - AuditSpec is a process that only calls AuditLog.log;                *)
(*   - ToolSpec applies the name resolution and execute_tool to the lists  *)
(*     of accounts that the platform may return;                           *)
(*   - the bot handles one update at a time (the Application is built with *)
(*     its defaults), so a button press is handled between two messages;   *)
(*   - MemorySpec is the memory store under its two tools, RateSpec the    *)
(*     rate limiter of the message handler, CompatSpec the trackers of the *)
(*     SDK and of the API package fed the same calls;                      *)
(*   - ClientSpec is a SequenceClient shared by two threads, execute()     *)
(*     taken in three steps (_wait, post, response); its times are tenths  *)
(*     of a second.                                                        *)
(***************************************************************************)
EXTENDS Integers, Sequences, FiniteSets, TLC

\* ------------------------------------------------------------------ bounds
MaxIds == 1          \* transfer ids that uuid4() hands out in a run
MaxTicks == 1        \* times the wall clock is seen to advance in a run
MaxCalls == 1        \* remote calls per id after which no call raises a non-RuntimeError
MaxRecords == 2      \* record() calls made on a tracker in a run of TrackerSpec
MaxRequests == 3     \* requests the server receives in a run of ServerSpec
MaxLines == 2        \* log() calls made in a run of AuditSpec
MaxFacts == 2        \* max_facts of the memory store of MemorySpec
MaxFactIds == 3      \* fact ids that uuid4() hands out in a run of MemorySpec
MaxMessages == 2     \* rate_limit_messages in a run of RateSpec
MaxRateCalls == 4    \* messages that arrive in a run of RateSpec
MaxElapses == 4      \* times a run of ClientSpec finds the clock advanced

max_facts == MaxFacts
rate_limit_messages == MaxMessages

\* ------------------------------------------------------- program constants
max_transfer_amount_cents == 1000000
pending_transfer_ttl == 300
conversation_ttl == 3600
max_daily_transfer_cents == 2500000
MaxNoteLen == 100
max_transfer_cents == 1000000
server_max_daily_transfer_cents == 2500000
TestMaxDailyCents == 10000

None == "None"
_GLOBAL_KEY == "__global__"

Users == {"101", "202"}
Ids == 1..MaxIds
\* ids a caller may name: those handed out and one that never is
RequestIds == 1..(MaxIds + 1)
\* amounts by which the clock advances: within the TTL of a pending
\* transfer, and beyond both it and the conversation TTL
Steps == {300, 3601}

\* ------------------------------------------------------------------- text
\* str.lower() on the letters that occur in the model
LowerMap == ("A" :> "a") @@ ("E" :> "e") @@ ("G" :> "g") @@ ("L" :> "l") @@
            ("N" :> "n") @@ ("R" :> "r") @@ ("S" :> "s") @@ ("T" :> "t") @@ ("Z" :> "z")

lower(s) == [i \in 1..Len(s) |-> IF s[i] \in DOMAIN LowerMap THEN LowerMap[s[i]] ELSE s[i]]

\* Python's  a in b  for strings
IsSubstring(a, b) ==
    \E i \in 1..(Len(b) - Len(a) + 1) : SubSeq(b, i, i + Len(a) - 1) = a

\* ----------------------------------------------------- the remote platform
\* what client.get_all_accounts(org_id) returns
Pods == << [id |-> "p1", name |-> <<"R","e","n","t">>, balance_cents |-> 3000000],
           [id |-> "p2", name |-> <<"G","a","s">>,     balance_cents |-> 5000] >>

Ports == << [id |-> "t1", name |-> <<"R","e","n","t","a","l">>, balance_cents |-> 0] >>

\* ------------------------------------------------------- account resolver
NotFound == [found |-> FALSE, id |-> "", name |-> <<>>, type |-> "", balance_cents |-> 0]

Account(item, typ) ==
    [found |-> TRUE, id |-> item.id, name |-> item.name, type |-> typ,
     balance_cents |-> item.balance_cents]

\* variant: the last exact match is taken
FirstExact_last(name_lower, items) ==
    LET hits == {i \in 1..Len(items) : lower(items[i].name) = name_lower}
    IN  IF hits = {} THEN 0 ELSE CHOOSE i \in hits : \A j \in hits : i >= j

\* index of the first element of items whose name equals name_lower, 0 if none
FirstExact(name_lower, items) ==
    LET hits == {i \in 1..Len(items) : lower(items[i].name) = name_lower}
    IN  IF hits = {} THEN 0 ELSE CHOOSE i \in hits : \A j \in hits : i <= j

_find_account_by_name(name, pods, ports) ==
    LET name_lower == lower(name)
        pod_hit  == FirstExact(name_lower, pods)
        port_hit == FirstExact(name_lower, ports)
        all_items == [i \in 1..(Len(pods) + Len(ports)) |->
                        IF i <= Len(pods) THEN <<pods[i], "POD">>
                                          ELSE <<ports[i - Len(pods)], "PORT">>]
        substring_matches ==
            {i \in DOMAIN all_items : IsSubstring(name_lower, lower(all_items[i][1].name))}
    IN  IF pod_hit # 0 THEN Account(pods[pod_hit], "POD")
        ELSE IF port_hit # 0 THEN Account(ports[port_hit], "PORT")
        ELSE IF Cardinality(substring_matches) = 1
             THEN LET i == CHOOSE i \in substring_matches : TRUE
                  IN  Account(all_items[i][1], all_items[i][2])
             ELSE NotFound

\* the elements of items whose name contains name_lower, in their order
SubstringMatches(name_lower, items) ==
    SelectSeq(items, LAMBDA p : IsSubstring(name_lower, lower(p.name)))

NoPod == [found |-> FALSE, id |-> "", name |-> << >>, balance_cents |-> 0]

Found(item) ==
    [found |-> TRUE, id |-> item.id, name |-> item.name,
     balance_cents |-> item.balance_cents]

\* variant: the first of several substring matches is taken
_find_pod_first(name, pods) ==
    LET name_lower == lower(name)
        hit == FirstExact(name_lower, pods)
        substring_matches == SubstringMatches(name_lower, pods)
    IN  IF hit # 0 THEN Found(pods[hit])
        ELSE IF Len(substring_matches) >= 1 THEN Found(substring_matches[1])
        ELSE NoPod

_find_pod(name, pods) ==
    LET name_lower == lower(name)
        hit == FirstExact(name_lower, pods)
        substring_matches == SubstringMatches(name_lower, pods)
    IN  IF hit # 0 THEN Found(pods[hit])
        ELSE IF Len(substring_matches) = 1 THEN Found(substring_matches[1])
        ELSE NoPod

NoSuggestion == [kind |-> "none", names |-> << >>, hint |-> ""]

\* the suffix of the error message: " Did you mean: a, b?" or the hint
_suggest_pods(name, pods) ==
    LET substring_matches == SubstringMatches(lower(name), pods)
    IN  IF substring_matches # << >>
        THEN [kind |-> "did_you_mean",
              names |-> [i \in 1..Len(substring_matches) |-> substring_matches[i].name],
              hint |-> ""]
        ELSE [kind |-> "hint", names |-> << >>, hint |-> "get_all_pods"]

\* ------------------------------------------------------------------ money
\* round(x) of Python 3 for x = n/10: round half to even
RoundTenths(n) ==
    LET q == n \div 10
        r == n % 10
    IN  IF r < 5 THEN q
        ELSE IF r > 5 THEN q + 1
        ELSE IF q % 2 = 0 THEN q ELSE q + 1

\* round(amount_dollars * 100), amount_dollars given in mills
ToCents(mills) == RoundTenths(mills)

\* ---------------------------------------------------------------- inputs
SourceNames == { <<"r","e","n","t">>, <<"g","a","s">>, <<"z","z">> }
DestinationNames == { <<"G","A">>, <<"R">> }
AmountsMills == { -1000, 0, 4, 10000000, 10000006 }
LongNote == [i \in 1..(MaxNoteLen + 1) |-> "x"]
Notes == { <<>>, LongNote }

Input(source_name, destination_name, amount_mills, note, fetch_ok) ==
    [source_name |-> source_name, destination_name |-> destination_name,
     amount_dollars |-> amount_mills, note |-> note, fetch_ok |-> fetch_ok]

\* tool inputs of request_transfer (fetch_ok: whether the account fetch of
\* the call returns): every amount, every pair of names, a long note and a
\* failing fetch, each against otherwise valid arguments
RequestInputs ==
    {Input(<<"r","e","n","t">>, <<"G","A">>, a, <<>>, TRUE) : a \in AmountsMills}
    \cup {Input(s, d, 10000000, <<>>, TRUE) : s \in SourceNames, d \in DestinationNames}
    \cup {Input(<<"r","e","n","t">>, <<"G","A">>, 10000000, LongNote, TRUE),
          Input(<<"r","e","n","t">>, <<"G","A">>, 10000000, <<>>, FALSE)}

VARIABLES now, ticks, pending, nextId, staged_this_turn, last_activity, turn,
          records, audit, calls, executed, left, reply,
          deployment,   \* "bot", "http" or "tracker": the process this run is
          limits_file,  \* the daily-limits file of the tracker process
          tracker,      \* its DailyLimitTracker instance
          only,         \* per actor: the same run with only that actor's record calls
          returned,     \* what the tracker's last operation returned
          requests,     \* per worker thread of the server: the request it handles
          memory,       \* the MemoryStore: its facts and its file
          _message_timestamps,  \* per user: the times the rate limiter counts
          client        \* the SequenceClient shared by the threads of a process

vars == <<now, ticks, pending, nextId, staged_this_turn, last_activity, turn,
          records, audit, calls, executed, left, reply,
          deployment, limits_file, tracker, only, returned, requests,
          memory, _message_timestamps, client>>

\* the components that have a process of their own in this model
cvars == <<memory, _message_timestamps, client>>

\* the state of the tracker process
tvars == <<limits_file, tracker, only, returned>>

\* ------------------------------------------------------ DailyLimitTracker
\* variant: the date is read once, when the process starts
_today_key_fixed(t) == 0

_today_key(t) == t \div 86400

\* variant: every actor shares the global key
_user_key_shared(user_id) == _GLOBAL_KEY

_user_key(user_id) == IF user_id # None THEN user_id ELSE _GLOBAL_KEY

RECURSIVE SumAmounts(_)
SumAmounts(entries) ==
    IF entries = <<>> THEN 0
    ELSE Head(entries).amount_cents + SumAmounts(Tail(entries))

_total_today(recs, user_key, t) ==
    LET today == _today_key(t)
    IN  IF today \notin DOMAIN recs THEN 0
        ELSE IF user_key \notin DOMAIN recs[today] THEN 0
        ELSE SumAmounts(recs[today][user_key])

\* variant: remaining is never reported below zero
limit_check_clamped(recs, max_daily_cents, amount_cents, user_id, t) ==
    LET used == _total_today(recs, _user_key(user_id), t)
        remaining == max_daily_cents - used
    IN  [allowed |-> amount_cents <= remaining,
         remaining |-> IF remaining < 0 THEN 0 ELSE remaining]

\* check() of a tracker built with max_daily_cents: (allowed, remaining_cents)
limit_check(recs, max_daily_cents, amount_cents, user_id, t) ==
    LET used == _total_today(recs, _user_key(user_id), t)
        remaining == max_daily_cents - used
    IN  [allowed |-> amount_cents <= remaining, remaining |-> remaining]

\* variant: the ceiling is not enforced
check_open(recs, amount_cents, user_id, t) ==
    [allowed |-> TRUE,
     remaining |-> limit_check(recs, max_daily_transfer_cents, amount_cents,
                               user_id, t).remaining]

\* check() of the bot's tracker
check(recs, amount_cents, user_id, t) ==
    limit_check(recs, max_daily_transfer_cents, amount_cents, user_id, t)

\* variant: the new entry replaces the actor's list
record_overwrite(recs, amount_cents, transfer_id, user_id, t) ==
    LET today == _today_key(t)
        user_key == _user_key(user_id)
        day == IF today \in DOMAIN recs THEN recs[today] ELSE << >>
        entry == [transfer_id |-> transfer_id, amount_cents |-> amount_cents,
                  timestamp |-> t]
        newday == [k \in DOMAIN day \cup {user_key} |->
                     IF k = user_key THEN << entry >> ELSE day[k]]
    IN  [d \in DOMAIN recs \cup {today} |-> IF d = today THEN newday ELSE recs[d]]

\* record() returns the new records (held in memory and written through)
record(recs, amount_cents, transfer_id, user_id, t) ==
    LET today == _today_key(t)
        user_key == _user_key(user_id)
        day == IF today \in DOMAIN recs THEN recs[today] ELSE << >>
        old == IF user_key \in DOMAIN day THEN day[user_key] ELSE << >>
        entry == [transfer_id |-> transfer_id, amount_cents |-> amount_cents,
                  timestamp |-> t]
        newday == [k \in DOMAIN day \cup {user_key} |->
                     IF k = user_key THEN Append(old, entry) ELSE day[k]]
    IN  [d \in DOMAIN recs \cup {today} |-> IF d = today THEN newday ELSE recs[d]]

\* ----------------------------------------- DailyLimitTracker and its file
\* the backing file: absent, unreadable (read_text raises OSError), not JSON,
\* or a JSON document: an object of day keys, a list, a number
FileAbsent == [shape |-> "absent"]
FileUnreadable == [shape |-> "unreadable"]
FileNotJson == [shape |-> "notjson"]
JsonList == [shape |-> "list"]
JsonNumber == [shape |-> "number"]
Object(days) == [shape |-> "object", days |-> days]

\* a day's value: the legacy flat list, the actor-keyed mapping, or a scalar
FlatList(entries) == [shape |-> "list", entries |-> entries]
ActorKeyed(users) == [shape |-> "dict", users |-> users]
Scalar == [shape |-> "scalar"]

Entry(transfer_id, amount_cents, t) ==
    [transfer_id |-> transfer_id, amount_cents |-> amount_cents, timestamp |-> t]

\* _load: the parsed document, {} for a missing or unparsable file; the
\* OSError of an unreadable file is not caught
_load(f) ==
    IF f.shape = "absent" THEN [raised |-> FALSE, value |-> Object(<< >>)]
    ELSE IF f.shape = "unreadable" THEN [raised |-> TRUE, value |-> Object(<< >>)]
    ELSE IF f.shape = "notjson" THEN [raised |-> FALSE, value |-> Object(<< >>)]
    ELSE [raised |-> FALSE, value |-> f]

\* variant: a flat list is left as it is
_migrate_kept(days) == days

\* _migrate: every flat list becomes {"__global__": list}
_migrate(days) ==
    [d \in DOMAIN days |->
        IF days[d].shape = "list"
        THEN ActorKeyed(_GLOBAL_KEY :> days[d].entries)
        ELSE days[d]]

Migrated(days) == \E d \in DOMAIN days : days[d].shape = "list"

\* variant: the day two days back is removed too
_prune_old_inclusive(days, t) ==
    [d \in {k \in DOMAIN days : ~(k <= _today_key(t) - 2)} |-> days[d]]

\* _prune_old: the keys below the cutoff are deleted
_prune_old(days, t) ==
    LET cutoff == _today_key(t) - 2
        keys_to_remove == {k \in DOMAIN days : k < cutoff}
    IN  [d \in DOMAIN days \ keys_to_remove |-> days[d]]

\* variant: nothing is written
_save_skipped(f, days) == f

\* _save: the file becomes the dump of the records
_save(f, days) == Object(days)

NoTracker == [alive |-> FALSE, records |-> << >>, max_daily_cents |-> 0]

\* DailyLimitTracker(path, max_daily_cents) run on file f at time t: the
\* instance (alive unless __init__ raised) and the file afterwards
DailyLimitTracker(f, max_daily_cents, t) ==
    LET loaded == _load(f)
    IN  IF loaded.raised \/ loaded.value.shape # "object"
        \* OSError of read_text, or AttributeError of self._records.items()
        THEN [tracker |-> NoTracker, file |-> f, raised |-> TRUE]
        ELSE LET m == _migrate(loaded.value.days)
                 f1 == IF Migrated(loaded.value.days) THEN _save(f, m) ELSE f
                 p == _prune_old(m, t)
                 f2 == IF DOMAIN p # DOMAIN m THEN _save(f1, p) ELSE f1
             IN  [tracker |-> [alive |-> TRUE, records |-> p,
                               max_daily_cents |-> max_daily_cents],
                  file |-> f2, raised |-> FALSE]

\* the days of self._records that are actor-keyed mappings
Nested(days) ==
    [d \in {k \in DOMAIN days : days[k].shape = "dict"} |-> days[d].users]

\* self._records[today] is not a mapping: .get and "in" raise on it
TodayMalformed(days, t) ==
    _today_key(t) \in DOMAIN days /\ days[_today_key(t)].shape # "dict"

\* self.check(amount_cents, user_id=user_id)
tracker_check(self, amount_cents, user_id, t) ==
    IF TodayMalformed(self.records, t)
    THEN [raised |-> TRUE, allowed |-> FALSE, remaining |-> 0]
    ELSE LET c == limit_check(Nested(self.records), self.max_daily_cents,
                              amount_cents, user_id, t)
         IN  [raised |-> FALSE, allowed |-> c.allowed, remaining |-> c.remaining]

\* self.record(amount_cents, transfer_id, user_id=user_id) of the instance of
\* run r = [tracker, file]: the run afterwards
tracker_record(r, amount_cents, transfer_id, user_id, t) ==
    LET self == r.tracker
    IN  IF TodayMalformed(self.records, t)
        THEN [tracker |-> self, file |-> r.file, raised |-> TRUE]
        ELSE LET n == record(Nested(self.records), amount_cents, transfer_id,
                             user_id, t)
                 days == [d \in DOMAIN self.records \cup {_today_key(t)} |->
                            IF d = _today_key(t) THEN ActorKeyed(n[d])
                            ELSE self.records[d]]
             IN  [tracker |-> [self EXCEPT !.records = days],
                  file |-> _save(r.file, days), raised |-> FALSE]

\* ---------------------------------------------------------------- AuditLog
\* an optional argument is the empty set (None) or a singleton
Opt(v) == {v}
Absent == {}
OptUser(user_id) == IF user_id = None THEN Absent ELSE Opt(user_id)
OptNote(note) == IF note = <<>> THEN Absent ELSE Opt(note)

user_names == ("101" :> "ann") @@ ("202" :> "bob")
UserName(user_id) == IF user_id \in DOMAIN user_names THEN Opt(user_names[user_id]) ELSE Absent

\* the value of each optional field that Python takes for false
Falsy == [user_id |-> "0", user_name |-> "", transfer_id |-> 0, amount_cents |-> 0,
          source |-> << >>, destination |-> << >>, note |-> << >>, error |-> ""]

\* variant: a field is written when its value is true, not when it is not None
AuditEntry_truthy(event_type, t, args) ==
    LET given == {k \in DOMAIN args : args[k] # Absent /\ args[k] # {Falsy[k]}}
    IN  [k \in given \cup {"timestamp", "event_type"} |->
            IF k = "timestamp" THEN t
            ELSE IF k = "event_type" THEN event_type
            ELSE CHOOSE v \in args[k] : TRUE]

\* AuditLog.log: the line appended to the audit file
AuditEntry(event_type, t, args) ==
    LET given == {k \in DOMAIN args : args[k] # Absent}
    IN  [k \in given \cup {"timestamp", "event_type"} |->
            IF k = "timestamp" THEN t
            ELSE IF k = "event_type" THEN event_type
            ELSE CHOOSE v \in args[k] : TRUE]

\* variant: the file is opened for writing, not for appending
log_truncating(file, event_type, t, args) == << AuditEntry(event_type, t, args) >>

log(file, event_type, t, args) == Append(file, AuditEntry(event_type, t, args))

\* --------------------------------------------------------- pending table
\* variant: the entry is not deleted
Remove_kept(table, transfer_id) == table

Remove(table, transfer_id) == [i \in DOMAIN table \ {transfer_id} |-> table[i]]

Leave(hist, transfer_id, why) == [hist EXCEPT ![transfer_id] = Append(@, why)]

\* what the handler that ran in the last step answered ("none" after a step
\* of the clock); remote tells whether it called the platform, sent is the
\* amount of the call (0 without one)
Reply(op, transfer_id, caller, result, remote) ==
    [op |-> op, id |-> transfer_id, caller |-> caller, result |-> result,
     remote |-> remote, sent |-> 0]

\* -------------------------------------------------------------------- Init
\* the ledger file found at start: user 202 has spent 24,000.00 today
PriorRecords ==
    (_today_key(300) :> ("202" :> << [transfer_id |-> 0, amount_cents |-> 2400000,
                                      timestamp |-> 0] >>))

\* the flat ledger the HTTP server finds at start: 24,000.00 spent today
ApiPriorRecords == (_today_key(300) :> << Entry(0, 2400000, 0) >>)

Actors == Users \cup {None}

NoReturn == [op |-> "none", amount_cents |-> 0, user_id |-> None, raised |-> FALSE,
             allowed |-> FALSE, remaining |-> 0]

\* the worker threads of the server's pool
Threads == {"w1", "w2"}

\* a thread between two requests
Idle == [pc |-> "idle", amount_cents |-> 0, transfer_id |-> 0]

\* a store that was never used
NoMemory == [_facts |-> << >>, file |-> << >>]

\* no message was counted
NoTimestamps == [u \in Users |-> << >>]

\* a client that sent no request
NewClient == [_last_request_time |-> 0, log |-> << >>]

\* no memory store, rate limiter or client of its own in this run
ComponentsIdle ==
    /\ memory = NoMemory
    /\ _message_timestamps = NoTimestamps
    /\ client = NewClient

\* no tracker process in this run
TrackerIdle ==
    /\ limits_file = FileAbsent
    /\ tracker = NoTracker
    /\ only = [a \in Actors |-> [tracker |-> NoTracker, file |-> FileAbsent]]
    /\ returned = NoReturn

Init ==
    /\ deployment \in {"bot", "http"}
    /\ TrackerIdle
    /\ now = 300
    /\ ticks = 0
    /\ pending = << >>
    /\ nextId = 0
    /\ staged_this_turn = << >>
    /\ last_activity = 0
    /\ turn = "idle"
    /\ records = IF deployment = "bot" THEN PriorRecords ELSE ApiPriorRecords
    /\ audit = << >>
    /\ calls = [i \in Ids |-> 0]
    /\ executed = [i \in Ids |-> 0]
    /\ left = [i \in Ids |-> << >>]
    /\ reply = Reply("none", 0, None, "none", FALSE)
    /\ requests = [th \in Threads |-> Idle]
    /\ ComponentsIdle

\* ------------------------------------------------------------------- clock
Tick ==
    /\ ticks < MaxTicks
    /\ ticks' = ticks + 1
    /\ \E d \in Steps : now' = now + d
    /\ reply' = Reply("none", 0, None, "none", FALSE)
    /\ UNCHANGED <<pending, nextId, staged_this_turn, last_activity, turn,
                   records, audit, calls, executed, left>>

\* ----------------------------------------------------- Agent.process_message
\* variant: the elapsed time is not compared with the TTL
ConversationExpired_always(last, t) == last # 0

ConversationExpired(last, t) == last # 0 /\ t - last > conversation_ttl

\* entry of process_message up to the first model call
BeginMessage(user_id) ==
    /\ turn = "idle"
    /\ staged_this_turn' = << >>
    /\ IF ConversationExpired(last_activity, now)
       THEN /\ pending' = << >>
            /\ left' = [i \in Ids |-> IF i \in DOMAIN pending
                                      THEN Append(left[i], "reset") ELSE left[i]]
       ELSE UNCHANGED <<pending, left>>
    /\ last_activity' = now
    /\ turn' = user_id
    /\ reply' = Reply("process_message", 0, user_id,
                       IF ConversationExpired(last_activity, now) THEN "reset" ELSE "begin",
                       FALSE)
    /\ UNCHANGED <<now, ticks, nextId, records, audit, calls, executed>>

\* the model answers without a tool call: process_message returns
EndMessage ==
    /\ turn # "idle"
    /\ turn' = "idle"
    /\ reply' = Reply("process_message", 0, turn, "end", FALSE)
    /\ UNCHANGED <<now, ticks, pending, nextId, staged_this_turn, last_activity,
                   records, audit, calls, executed, left>>

\* ------------------------------------------------- _handle_request_transfer
NoteTooLong(note) == Len(note) > MaxNoteLen

NotPositive(amount_mills) == amount_mills <= 0

\* variant: the daily ceiling is used for the per-transfer check
OverCeiling_daily(amount_cents) == amount_cents > max_daily_transfer_cents

OverCeiling(amount_cents) == amount_cents > max_transfer_amount_cents

\* the decision of request_transfer, in the order of the code
\* fetch_ok: whether client.get_all_accounts returns (it raises otherwise)
_handle_request_transfer(source_name, destination_name, amount_mills, note, user_id, recs, t, fetch_ok) ==
    LET amount_cents == ToCents(amount_mills)
        source == _find_account_by_name(source_name, Pods, Ports)
        destination == _find_account_by_name(destination_name, Pods, Ports)
        Answer(result, remote) ==
            [result |-> result, remote |-> remote, amount_cents |-> amount_cents,
             source |-> source, destination |-> destination]
    IN  IF NoteTooLong(note) THEN Answer("error_note", FALSE)
        ELSE IF NotPositive(amount_mills) THEN Answer("error_amount", FALSE)
        ELSE IF OverCeiling(amount_cents) THEN Answer("error_max", FALSE)
        ELSE IF user_id # None /\ ~check(recs, amount_cents, user_id, t).allowed
             THEN Answer("error_daily", FALSE)
        ELSE IF ~fetch_ok THEN Answer("raised", TRUE)
        ELSE IF ~source.found THEN Answer("error_source", TRUE)
        ELSE IF ~destination.found THEN Answer("error_destination", TRUE)
        ELSE IF source.balance_cents < amount_cents THEN Answer("error_balance", TRUE)
        ELSE Answer("staged", TRUE)

\* the pending transfer that request_transfer stores
PendingTransfer(source, destination, amount_cents, note, user_id, t) ==
    [source_id |-> source.id, source_name |-> source.name, source_type |-> source.type,
     destination_id |-> destination.id, destination_name |-> destination.name,
     destination_type |-> destination.type, amount_cents |-> amount_cents,
     created_at |-> t, user_id |-> user_id, note |-> note]

\* the request_transfer tool, called by the model during a turn of user turn
ToolRequestTransfer ==
    /\ turn # "idle"
    /\ \E tool_input \in RequestInputs :
         LET note == tool_input.note
             r == _handle_request_transfer(tool_input.source_name,
                      tool_input.destination_name, tool_input.amount_dollars,
                      note, turn, records, now, tool_input.fetch_ok)
             transfer_id == nextId + 1
         IN  IF r.result = "staged"
             THEN /\ nextId < MaxIds
                  /\ nextId' = transfer_id
                  /\ pending' = pending @@ (transfer_id :>
                         PendingTransfer(r.source, r.destination, r.amount_cents,
                                         note, turn, now))
                  /\ staged_this_turn' = Append(staged_this_turn, transfer_id)
                  /\ audit' = log(audit, "transfer_staged", now,
                         [user_id |-> OptUser(turn), user_name |-> UserName(turn),
                          transfer_id |-> Opt(transfer_id),
                          amount_cents |-> Opt(r.amount_cents),
                          source |-> Opt(r.source.name),
                          destination |-> Opt(r.destination.name),
                          note |-> OptNote(note), error |-> Absent])
                  /\ reply' = Reply("request_transfer", transfer_id, turn, "staged", TRUE)
                  /\ UNCHANGED turn
             ELSE /\ reply' = Reply("request_transfer", 0, turn, r.result, r.remote)
                  \* an exception of the fetch leaves process_message
                  /\ turn' = IF r.result = "raised" THEN "idle" ELSE turn
                  /\ UNCHANGED <<nextId, pending, staged_this_turn, audit>>
    /\ UNCHANGED <<now, ticks, last_activity, records, calls, executed, left>>

\* -------------------------------------------------- _handle_cancel_transfer
\* variant: an absent caller id is not let through
CancelRefused_strict(transfer, user_id) ==
    transfer.user_id # None /\ transfer.user_id # user_id

\* the ownership check of the cancel_transfer tool
CancelRefused(transfer, user_id) ==
    user_id # None /\ transfer.user_id # None /\ transfer.user_id # user_id

ToolCancelTransfer ==
    /\ turn # "idle"
    /\ \E transfer_id \in RequestIds :
         IF transfer_id \notin DOMAIN pending
         THEN /\ reply' = Reply("cancel_transfer", transfer_id, turn, "not_found", FALSE)
              /\ UNCHANGED <<pending, audit, left>>
         ELSE LET transfer == pending[transfer_id]
              IN  IF CancelRefused(transfer, turn)
                  THEN /\ reply' = Reply("cancel_transfer", transfer_id, turn,
                                         "permission", FALSE)
                       /\ UNCHANGED <<pending, audit, left>>
                  ELSE /\ audit' = log(audit, "transfer_cancelled", now,
                              [user_id |-> OptUser(turn), user_name |-> Absent,
                               transfer_id |-> Opt(transfer_id),
                               amount_cents |-> Opt(transfer.amount_cents),
                               source |-> Opt(transfer.source_name),
                               destination |-> Opt(transfer.destination_name),
                               note |-> Absent, error |-> Absent])
                       /\ pending' = Remove(pending, transfer_id)
                       /\ left' = Leave(left, transfer_id, "cancelled")
                       /\ reply' = Reply("cancel_transfer", transfer_id, turn,
                                         "cancelled", FALSE)
    /\ UNCHANGED <<now, ticks, nextId, staged_this_turn, last_activity, turn, records,
                   calls, executed>>

\* ------------------------------------------------- _handle_confirm_transfer
\* outcome of client.transfer: "ok", "RuntimeError" (HTTP status >= 400, GraphQL
\* errors, business rejection) or "Exception" (network failure, malformed
\* response: anything that is not a RuntimeError)
Outcomes == {"ok", "RuntimeError", "Exception"}

\* variant: the platform is sent whole dollars
TransferVariables_dollars(transfer) ==
    [source |-> transfer.source_id, destination |-> transfer.destination_id,
     amount |-> transfer.amount_cents \div 100]

\* the variables of the CreatePayment request that client.transfer builds
\* from the pending entry
TransferVariables(transfer) ==
    [source |-> transfer.source_id, destination |-> transfer.destination_id,
     amount |-> transfer.amount_cents]

\* variant: whatever happens to a known id is reported as a success
_handle_confirm_transfer_optimistic(table, transfer_id, t, outcome) ==
    IF transfer_id \notin DOMAIN table
    THEN [result |-> "not_found", table |-> table, called |-> FALSE, sent |-> 0]
    ELSE [result |-> "success", table |-> Remove(table, transfer_id),
          called |-> outcome # "Exception",
          sent |-> TransferVariables(table[transfer_id]).amount]

\* result: what the function returns ("raised" when the exception leaves it),
\* table: the pending table afterwards, called: whether client.transfer ran,
\* sent: the amount it was called with
_handle_confirm_transfer(table, transfer_id, t, outcome) ==
    IF transfer_id \notin DOMAIN table
    THEN [result |-> "not_found", table |-> table, called |-> FALSE, sent |-> 0]
    ELSE IF t - table[transfer_id].created_at > pending_transfer_ttl
    THEN [result |-> "expired", table |-> Remove(table, transfer_id), called |-> FALSE,
          sent |-> 0]
    ELSE LET amount == TransferVariables(table[transfer_id]).amount
         IN  IF outcome = "RuntimeError"
             THEN [result |-> "error", table |-> Remove(table, transfer_id),
                   called |-> TRUE, sent |-> amount]
             ELSE IF outcome = "ok"
             THEN [result |-> "success", table |-> Remove(table, transfer_id),
                   called |-> TRUE, sent |-> amount]
             ELSE [result |-> "raised", table |-> table, called |-> TRUE,
                   sent |-> amount]

\* ------------------------------------------------------- _handle_callback
\* variant: no ownership check
NotOwner_skipped(transfer, user_id) == FALSE

\* the ownership check of the callback
NotOwner(transfer, user_id) == transfer.user_id # None /\ transfer.user_id # user_id

\* variant: a transfer of exactly the TTL's age counts as expired
TtlElapsed_inclusive(transfer, t) == t - transfer.created_at >= pending_transfer_ttl

\* the TTL check of the callback
TtlElapsed(transfer, t) == t - transfer.created_at > pending_transfer_ttl

TransferArgs(transfer, transfer_id, user_id, user_name, error) ==
    [user_id |-> OptUser(user_id), user_name |-> user_name,
     transfer_id |-> Opt(transfer_id), amount_cents |-> Opt(transfer.amount_cents),
     source |-> Opt(transfer.source_name),
     destination |-> Opt(transfer.destination_name),
     note |-> Absent, error |-> error]

CallbackCancel(transfer_id, user_id) ==
    LET transfer == pending[transfer_id]
    IN  /\ audit' = log(audit, "transfer_cancelled", now,
               TransferArgs(transfer, transfer_id, user_id, UserName(user_id), Absent))
        /\ pending' = Remove(pending, transfer_id)
        /\ left' = Leave(left, transfer_id, "cancelled")
        /\ reply' = Reply("cancel", transfer_id, user_id, "cancelled", FALSE)
        /\ UNCHANGED <<now, ticks, records, calls, executed>>

\* variant: a refused transfer is dropped like an expired one
DailyLimitRefusal_dropping(transfer_id, user_id) ==
    /\ reply' = Reply("confirm", transfer_id, user_id, "daily_limit", FALSE)
    /\ pending' = Remove(pending, transfer_id)
    /\ left' = Leave(left, transfer_id, "expired")
    /\ UNCHANGED <<now, ticks, records, audit, calls, executed>>

\* the re-check of the daily limit refused: the user is told, nothing else
DailyLimitRefusal(transfer_id, user_id) ==
    /\ reply' = Reply("confirm", transfer_id, user_id, "daily_limit", FALSE)
    /\ UNCHANGED <<now, ticks, pending, records, audit, calls, executed, left>>

\* delay: time that passes between the callback's reading of the clock and
\* the one of _handle_confirm_transfer
CallbackConfirm(transfer_id, user_id, delay, outcome) ==
    LET transfer == pending[transfer_id]
        t == now + delay
        c == _handle_confirm_transfer(pending, transfer_id, t, outcome)
    IN  IF TtlElapsed(transfer, now)
        THEN /\ audit' = log(audit, "transfer_expired", now,
                    TransferArgs(transfer, transfer_id, user_id, Absent, Absent))
             /\ pending' = Remove(pending, transfer_id)
             /\ left' = Leave(left, transfer_id, "expired")
             /\ reply' = Reply("confirm", transfer_id, user_id, "expired", FALSE)
             /\ UNCHANGED <<now, ticks, records, calls, executed>>
        ELSE IF ~check(records, transfer.amount_cents, user_id, now).allowed
        THEN DailyLimitRefusal(transfer_id, user_id)
        ELSE /\ delay > 0 => ticks < MaxTicks
             /\ ticks' = IF delay > 0 THEN ticks + 1 ELSE ticks
             /\ outcome = "Exception" => calls[transfer_id] < MaxCalls
             /\ now' = t
             /\ pending' = c.table
             /\ calls' = [calls EXCEPT ![transfer_id] = IF c.called THEN @ + 1 ELSE @]
             /\ executed' = [executed EXCEPT
                               ![transfer_id] = IF c.result = "success" THEN @ + 1 ELSE @]
             /\ CASE c.result = "raised" ->
                       /\ audit' = log(audit, "transfer_failed", t,
                              TransferArgs(transfer, transfer_id, user_id,
                                           UserName(user_id), Opt("exception")))
                       /\ reply' = [Reply("confirm", transfer_id, user_id, "exception", TRUE)
                                    EXCEPT !.sent = c.sent]
                       /\ UNCHANGED <<records, left>>
                  [] c.result = "error" ->
                       /\ audit' = log(audit, "transfer_failed", t,
                              TransferArgs(transfer, transfer_id, user_id,
                                           UserName(user_id), Opt("RuntimeError")))
                       /\ left' = Leave(left, transfer_id, "failed")
                       /\ reply' = [Reply("confirm", transfer_id, user_id, "failed", TRUE)
                                    EXCEPT !.sent = c.sent]
                       /\ UNCHANGED records
                  [] c.result = "expired" ->
                       /\ audit' = log(audit, "transfer_failed", t,
                              TransferArgs(transfer, transfer_id, user_id,
                                           UserName(user_id), Opt("expired")))
                       /\ left' = Leave(left, transfer_id, "expired")
                       /\ reply' = Reply("confirm", transfer_id, user_id, "expired", FALSE)
                       /\ UNCHANGED records
                  [] c.result = "success" ->
                       /\ records' = record(records, transfer.amount_cents, transfer_id,
                                            user_id, t)
                       /\ audit' = log(audit, "transfer_confirmed", t,
                              TransferArgs(transfer, transfer_id, user_id,
                                           UserName(user_id), Absent))
                       /\ left' = Leave(left, transfer_id, "confirmed")
                       /\ reply' = [Reply("confirm", transfer_id, user_id, "confirmed", TRUE)
                                    EXCEPT !.sent = c.sent]
                  [] c.result = "not_found" ->
                       /\ reply' = Reply("confirm", transfer_id, user_id, "not_found", FALSE)
                       /\ UNCHANGED <<records, audit, left>>

Actions == {"confirm", "cancel"}
Delays == {0} \cup Steps

\* a button press: callback data  action:transfer_id  from Telegram user user_id
HandleCallback ==
    /\ turn = "idle"
    /\ \E action \in Actions, transfer_id \in RequestIds, user_id \in Users :
         IF transfer_id \notin DOMAIN pending
         THEN /\ reply' = Reply(action, transfer_id, user_id, "not_found", FALSE)
              /\ UNCHANGED <<now, ticks, pending, records, audit, calls, executed, left>>
         ELSE IF NotOwner(pending[transfer_id], user_id)
         THEN /\ reply' = Reply(action, transfer_id, user_id, "permission", FALSE)
              /\ UNCHANGED <<now, ticks, pending, records, audit, calls, executed, left>>
         ELSE IF action = "cancel"
         THEN CallbackCancel(transfer_id, user_id)
         ELSE \E delay \in Delays, outcome \in Outcomes :
                 CallbackConfirm(transfer_id, user_id, delay, outcome)
    /\ UNCHANGED <<nextId, staged_this_turn, last_activity, turn>>

\* ---------------------------------- HTTP server: POST /transfers (the API)
\* the API package's own tracker keeps one flat list per day
api_total_today(recs, t) ==
    IF _today_key(t) \notin DOMAIN recs THEN 0 ELSE SumAmounts(recs[_today_key(t)])

\* variant: the ceiling is not enforced
api_check_open(recs, amount_cents, t) ==
    [allowed |-> TRUE, remaining |-> server_max_daily_transfer_cents - api_total_today(recs, t)]

api_check(recs, amount_cents, t) ==
    LET remaining == server_max_daily_transfer_cents - api_total_today(recs, t)
    IN  [allowed |-> amount_cents <= remaining, remaining |-> remaining]

api_record(recs, amount_cents, transfer_id, t) ==
    LET today == _today_key(t)
        old == IF today \in DOMAIN recs THEN recs[today] ELSE << >>
    IN  [d \in DOMAIN recs \cup {today} |->
            IF d = today THEN Append(old, Entry(transfer_id, amount_cents, t))
            ELSE recs[d]]

\* body.amount_cents (the request model admits only amounts > 0)
ApiAmounts == {100, 1000000, 1000001}

\* client.transfer in the route: "TransferFailed" is the RuntimeError of a
\* business rejection, "RuntimeError" the one of an upstream failure
ApiOutcomes == {"ok", "TransferFailed", "RuntimeError", "Exception"}

\* variant: every RuntimeError is left to the application's handler
FailureResult_gateway(outcome) == "failed_502"

\* the answer to a RuntimeError of client.transfer: 400 when the message
\* holds "Transfer failed:", else the application's handler answers 502
FailureResult(outcome) == IF outcome = "TransferFailed" THEN "failed_400" ELSE "failed_502"

ApiArgs(transfer_id, amount_cents, error) ==
    [transfer_id |-> transfer_id, amount_cents |-> Opt(amount_cents),
     source |-> Opt("source_id"), destination |-> Opt("destination_id"),
     note |-> Absent, error |-> error]

create_transfer ==
    /\ nextId < MaxIds
    /\ \E amount_cents \in ApiAmounts, outcome \in ApiOutcomes :
         LET transfer_id == nextId + 1
             requested == log(audit, "transfer_requested", now,
                              ApiArgs(Absent, amount_cents, Absent))
         IN  /\ nextId' = transfer_id
             /\ IF amount_cents > max_transfer_cents
                THEN /\ reply' = Reply("create_transfer", transfer_id, None,
                                       "error_max", FALSE)
                     /\ UNCHANGED <<records, audit, calls, executed>>
                ELSE IF ~api_check(records, amount_cents, now).allowed
                THEN /\ reply' = Reply("create_transfer", transfer_id, None,
                                       "error_daily", FALSE)
                     /\ UNCHANGED <<records, audit, calls, executed>>
                ELSE /\ calls' = [calls EXCEPT ![transfer_id] = @ + 1]
                     /\ CASE outcome = "ok" ->
                              /\ executed' = [executed EXCEPT ![transfer_id] = @ + 1]
                              /\ records' = api_record(records, amount_cents,
                                                       transfer_id, now)
                              /\ audit' = log(requested, "transfer_completed", now,
                                     ApiArgs(Opt(transfer_id), amount_cents, Absent))
                              /\ reply' = Reply("create_transfer", transfer_id, None,
                                                "completed", TRUE)
                          [] outcome \in {"TransferFailed", "RuntimeError"} ->
                              /\ audit' = log(requested, "transfer_failed", now,
                                     ApiArgs(Absent, amount_cents, Opt(outcome)))
                              /\ reply' = Reply("create_transfer", transfer_id, None,
                                     FailureResult(outcome), TRUE)
                              /\ UNCHANGED <<records, executed>>
                          [] outcome = "Exception" ->
                              /\ audit' = requested
                              /\ reply' = Reply("create_transfer", transfer_id, None,
                                                "exception", TRUE)
                              /\ UNCHANGED <<records, executed>>
    /\ UNCHANGED <<now, ticks, pending, staged_this_turn, last_activity, turn, left>>

\* ------------------------------------------------------------------- Spec
Next ==
    \/ Tick /\ UNCHANGED <<deployment, tvars, requests, cvars>>
    \/ /\ deployment = "bot"
       /\ \E user_id \in Users \cup {None} : BeginMessage(user_id)
       /\ UNCHANGED <<deployment, tvars, requests, cvars>>
    \/ deployment = "bot" /\ ToolRequestTransfer /\ UNCHANGED <<deployment, tvars, requests, cvars>>
    \/ deployment = "bot" /\ ToolCancelTransfer /\ UNCHANGED <<deployment, tvars, requests, cvars>>
    \/ deployment = "bot" /\ EndMessage /\ UNCHANGED <<deployment, tvars, requests, cvars>>
    \/ deployment = "bot" /\ HandleCallback /\ UNCHANGED <<deployment, tvars, requests, cvars>>
    \/ deployment = "http" /\ create_transfer /\ UNCHANGED <<deployment, tvars, requests, cvars>>

Spec == Init /\ [][Next]_vars

\* ------------------------------ HTTP server: two requests at the same time
\* body.amount_cents of the requests: two that fit under the ceiling alone
\* but not together, one over the daily ceiling, one over the transfer limit
ServerAmounts == {60000, 100000, 1000000, 1000001}

\* the variables that a server with a thread pool does not use
idle_vars == <<now, ticks, pending, staged_this_turn, last_activity, turn, calls,
               executed, left, deployment, tvars, cvars>>

ServerInit ==
    /\ deployment = "http"
    /\ TrackerIdle
    /\ now = 300
    /\ ticks = 0
    /\ pending = << >>
    /\ nextId = 0
    /\ staged_this_turn = << >>
    /\ last_activity = 0
    /\ turn = "idle"
    /\ records = ApiPriorRecords
    /\ audit = << >>
    /\ calls = [i \in Ids |-> 0]
    /\ executed = [i \in Ids |-> 0]
    /\ left = [i \in Ids |-> << >>]
    /\ reply = Reply("none", 0, None, "none", FALSE)
    /\ requests = [th \in Threads |-> Idle]
    /\ ComponentsIdle

\* create_transfer up to the remote call: the two limit checks and the
\* transfer_requested audit event
Admit(th) ==
    /\ requests[th].pc = "idle"
    /\ nextId < MaxRequests
    /\ nextId' = nextId + 1
    /\ \E amount_cents \in ServerAmounts :
         IF amount_cents > max_transfer_cents
         THEN /\ reply' = Reply("create_transfer", nextId', th, "error_max", FALSE)
              /\ requests' = [requests EXCEPT ![th] = [Idle EXCEPT !.amount_cents = amount_cents]]
              /\ UNCHANGED audit
         ELSE IF ~api_check(records, amount_cents, now).allowed
         THEN /\ reply' = Reply("create_transfer", nextId', th, "error_daily", FALSE)
              /\ requests' = [requests EXCEPT ![th] = [Idle EXCEPT !.amount_cents = amount_cents]]
              /\ UNCHANGED audit
         ELSE /\ audit' = log(audit, "transfer_requested", now,
                              ApiArgs(Absent, amount_cents, Absent))
              /\ requests' = [requests EXCEPT ![th] =
                     [pc |-> "requested", amount_cents |-> amount_cents,
                      transfer_id |-> nextId']]
              /\ reply' = Reply("create_transfer", nextId', th, "requested", FALSE)
    /\ UNCHANGED <<records, idle_vars>>

\* the remote call of create_transfer and its except clause (the id under
\* which the platform executes the transfer is the number of the request)
PerformTransfer(th) ==
    /\ requests[th].pc = "requested"
    /\ \E outcome \in ApiOutcomes :
         LET amount_cents == requests[th].amount_cents
         IN  CASE outcome = "ok" ->
                  /\ requests' = [requests EXCEPT ![th].pc = "executed"]
                  /\ reply' = Reply("create_transfer", requests[th].transfer_id, th,
                                    "executed", TRUE)
                  /\ UNCHANGED audit
              [] outcome \in {"TransferFailed", "RuntimeError"} ->
                  /\ audit' = log(audit, "transfer_failed", now,
                                  ApiArgs(Absent, amount_cents, Opt(outcome)))
                  /\ requests' = [requests EXCEPT ![th].pc = "idle"]
                  /\ reply' = Reply("create_transfer", requests[th].transfer_id, th,
                                    FailureResult(outcome), TRUE)
              [] outcome = "Exception" ->
                  /\ requests' = [requests EXCEPT ![th].pc = "idle"]
                  /\ reply' = Reply("create_transfer", requests[th].transfer_id, th,
                                    "exception", TRUE)
                  /\ UNCHANGED audit
    /\ UNCHANGED <<nextId, records, idle_vars>>

\* create_transfer after the remote call returned: record, audit, response
Complete(th) ==
    /\ requests[th].pc = "executed"
    /\ records' = api_record(records, requests[th].amount_cents,
                             requests[th].transfer_id, now)
    /\ audit' = log(audit, "transfer_completed", now,
                    ApiArgs(Opt(requests[th].transfer_id), requests[th].amount_cents,
                            Absent))
    /\ requests' = [requests EXCEPT ![th].pc = "idle"]
    /\ reply' = Reply("create_transfer", requests[th].transfer_id, th, "completed", TRUE)
    /\ UNCHANGED <<nextId, idle_vars>>

ServerNext ==
    \/ \E th \in Threads : Admit(th)
    \/ \E th \in Threads : PerformTransfer(th)
    \/ \E th \in Threads : Complete(th)

ServerSpec == ServerInit /\ [][ServerNext]_vars

\* -------------------------------------------- a process that only logs
AuditFields == {"user_id", "user_name", "transfer_id", "amount_cents", "source",
                "destination", "note", "error"}

\* a value of each optional field that Python takes for true
Truthy == [user_id |-> "101", user_name |-> "ann", transfer_id |-> 7,
           amount_cents |-> 500, source |-> <<"R","e","n","t">>,
           destination |-> <<"G","a","s">>, note |-> <<"x">>, error |-> "boom"]

\* the keyword arguments of a call: none given, or all given, and these
\* with one argument replaced by None, by a true or by a false value
LogArgs ==
    LET bases == {[f \in AuditFields |-> Absent], [f \in AuditFields |-> Opt(Truthy[f])]}
    IN  UNION {{[b EXCEPT ![k] = v] :
                    b \in bases, v \in {Absent, Opt(Truthy[k]), Opt(Falsy[k])}}
               : k \in AuditFields}

EventTypes == {"transfer_staged", "transfer_failed"}

AuditInit ==
    /\ deployment = "audit"
    /\ limits_file = FileAbsent
    /\ tracker = NoTracker
    /\ only = [a \in Actors |-> [tracker |-> NoTracker, file |-> FileAbsent]]
    /\ returned = << >>
    /\ now = 300
    /\ ticks = 0
    /\ pending = << >>
    /\ nextId = 0
    /\ staged_this_turn = << >>
    /\ last_activity = 0
    /\ turn = "idle"
    /\ records = << >>
    /\ audit = << >>
    /\ calls = [i \in Ids |-> 0]
    /\ executed = [i \in Ids |-> 0]
    /\ left = [i \in Ids |-> << >>]
    /\ reply = Reply("none", 0, None, "none", FALSE)
    /\ requests = [th \in Threads |-> Idle]
    /\ ComponentsIdle

\* audit.log(event_type, **args); returned keeps the calls made so far, and
\* the clock has moved on when the next call reads it
LogCall ==
    /\ Len(returned) < MaxLines
    /\ \E event_type \in EventTypes, args \in LogArgs :
         /\ audit' = log(audit, event_type, now, args)
         /\ returned' = Append(returned, [event_type |-> event_type, t |-> now,
                                          args |-> args])
    /\ now' = now + 1
    /\ UNCHANGED <<ticks, pending, nextId, staged_this_turn, last_activity, turn,
                   records, calls, executed, left, reply, deployment, limits_file,
                   tracker, only, requests, cvars>>

AuditNext == LogCall

AuditSpec == AuditInit /\ [][AuditNext]_vars

\* ----------------------------------------- execute_tool: the lookup tools
\* names of accounts on the platform
AccountNames == { <<"R","e","n","t">>, <<"R","E","N","T">>,
                  <<"R","e","n","t","a","l">>, <<"G","a","s">> }

\* the lists of names that a fetch may return: up to two different accounts
NameLists ==
    {<< >>} \cup {<<a>> : a \in AccountNames}
            \cup {l \in AccountNames \X AccountNames : l[1] # l[2]}

PodIds == <<"p1", "p2">>
PortIds == <<"t1", "t2">>

\* the dicts of client.get_pods() / get_all_accounts(), each with 50.00
Items(ids, names) ==
    [i \in 1..Len(names) |-> [id |-> ids[i], name |-> names[i], balance_cents |-> 5000]]

\* what the model passes for a name: an exact name in another case, parts of
\* names, a text that no name contains, the empty text
Queries == { <<"r","e","n","t">>, <<"R","E","N">>, <<"a","l">>, <<"g","a">>,
             <<"z","z">>, << >> }

\* a dict without one of its keys
Without(d, key) == [k \in DOMAIN d \ {key} |-> d[k]]

PodBalanceInputs ==
    {[pod_name |-> q] : q \in Queries} \cup {Without([pod_name |-> << >>], "pod_name")}

TransferFields == {"source_name", "destination_name", "amount_dollars"}

\* 4.00 dollars between two names, one of which is the query
TransferInputs ==
    LET full(s, d) == [source_name |-> s, destination_name |-> d, amount_dollars |-> 4000]
    IN  {full(q, <<"g","a","s">>) : q \in Queries}
        \cup {full(<<"g","a","s">>, q) : q \in Queries}
        \cup {Without(full(<<"r","e","n","t">>, <<"g","a","s">>), k) : k \in TransferFields}

ToolResult(raised, result, account, suggestion) ==
    [raised |-> raised, result |-> result, account |-> account,
     suggestion |-> suggestion]

\* tool_input[key] of a key that the dict lacks
KeyError == ToolResult(TRUE, "KeyError", NoPod, NoSuggestion)

\* execute_tool for get_pod_balance and for request_transfer of an agent
\* without daily-limit tracker, over the accounts that the platform returns
execute_tool(tool_name, tool_input, pods, ports) ==
    IF tool_name = "get_pod_balance"
    THEN IF "pod_name" \notin DOMAIN tool_input THEN KeyError
         ELSE LET pod == _find_pod(tool_input.pod_name, pods)
              IN  IF ~pod.found
                  THEN ToolResult(FALSE, "error_pod", NoPod,
                                  _suggest_pods(tool_input.pod_name, pods))
                  ELSE ToolResult(FALSE, "pod", pod, NoSuggestion)
    ELSE IF ~(TransferFields \subseteq DOMAIN tool_input) THEN KeyError
    ELSE LET note == IF "note" \in DOMAIN tool_input THEN tool_input.note ELSE << >>
             amount_cents == ToCents(tool_input.amount_dollars)
             source == _find_account_by_name(tool_input.source_name, pods, ports)
             destination == _find_account_by_name(tool_input.destination_name, pods, ports)
         IN  IF NoteTooLong(note) THEN ToolResult(FALSE, "error_note", NoPod, NoSuggestion)
             ELSE IF NotPositive(tool_input.amount_dollars)
                  THEN ToolResult(FALSE, "error_amount", NoPod, NoSuggestion)
             ELSE IF OverCeiling(amount_cents)
                  THEN ToolResult(FALSE, "error_max", NoPod, NoSuggestion)
             ELSE IF ~source.found
                  THEN ToolResult(FALSE, "error_source", NoPod,
                                  _suggest_pods(tool_input.source_name, pods))
             ELSE IF ~destination.found
                  THEN ToolResult(FALSE, "error_destination", NoPod,
                                  _suggest_pods(tool_input.destination_name, pods))
             ELSE IF source.balance_cents < amount_cents
                  THEN ToolResult(FALSE, "error_balance", NoPod, NoSuggestion)
             ELSE ToolResult(FALSE, "staged", NoPod, NoSuggestion)

ToolInit ==
    /\ deployment = "tools"
    /\ limits_file = FileAbsent
    /\ tracker = NoTracker
    /\ only = [a \in Actors |-> [tracker |-> NoTracker, file |-> FileAbsent]]
    /\ returned = [op |-> "none"]
    /\ now = 300
    /\ ticks = 0
    /\ pending = << >>
    /\ nextId = 0
    /\ staged_this_turn = << >>
    /\ last_activity = 0
    /\ turn = "idle"
    /\ records = << >>
    /\ audit = << >>
    /\ calls = [i \in Ids |-> 0]
    /\ executed = [i \in Ids |-> 0]
    /\ left = [i \in Ids |-> << >>]
    /\ reply = Reply("none", 0, None, "none", FALSE)
    /\ requests = [th \in Threads |-> Idle]
    /\ ComponentsIdle

\* the variables that a lookup leaves alone
lookup_vars == <<now, ticks, pending, nextId, staged_this_turn, last_activity, turn,
                 records, audit, calls, executed, left, reply, deployment,
                 limits_file, tracker, only, requests, cvars>>

\* the loop that returns the first pod of that name
RECURSIVE FirstNamed(_, _)
FirstNamed(name_lower, pods) ==
    IF pods = << >> THEN NoPod
    ELSE IF lower(Head(pods).name) = name_lower THEN Found(Head(pods))
    ELSE FirstNamed(name_lower, Tail(pods))

\* variant: no substring fallback
get_pod_balance_exact(pod_name, pods) == FirstNamed(lower(pod_name), pods)

\* SequenceClient.get_pod_balance on the pods that get_pods() returned
get_pod_balance(pod_name, pods) ==
    LET name_lower == lower(pod_name)
        exact == FirstNamed(name_lower, pods)
        substring_matches == SubstringMatches(name_lower, pods)
    IN  IF exact.found THEN exact
        ELSE IF Len(substring_matches) = 1 THEN Found(substring_matches[1])
        ELSE NoPod

\* a caller of the SDK asks the client for a pod's balance
ClientGetPodBalance ==
    /\ returned.op = "none"
    /\ \E pod_name \in Queries, pod_names \in NameLists :
         LET pods == Items(PodIds, pod_names)
         IN  returned' = [op |-> "SequenceClient.get_pod_balance", name |-> pod_name,
                          pods |-> pods, ports |-> << >>,
                          out |-> get_pod_balance(pod_name, pods)]
    /\ UNCHANGED lookup_vars

\* _find_account_by_name(name, pods, ports) on the accounts fetched (the
\* lookups keep no state from one call to the next: a run is one call)
FindAccount ==
    /\ returned.op = "none"
    /\ \E name \in Queries, pod_names \in NameLists, port_names \in NameLists :
         LET pods == Items(PodIds, pod_names)
             ports == Items(PortIds, port_names)
         IN  returned' = [op |-> "_find_account_by_name", name |-> name,
                          pods |-> pods, ports |-> ports,
                          out |-> _find_account_by_name(name, pods, ports)]
    /\ UNCHANGED lookup_vars

\* the model calls get_pod_balance
GetPodBalance ==
    /\ returned.op = "none"
    /\ \E tool_input \in PodBalanceInputs, pod_names \in NameLists :
         LET pods == Items(PodIds, pod_names)
         IN  returned' = [op |-> "get_pod_balance", tool_input |-> tool_input,
                          pods |-> pods, ports |-> << >>,
                          out |-> execute_tool("get_pod_balance", tool_input,
                                               pods, << >>)]
    /\ UNCHANGED lookup_vars

\* the model calls request_transfer: the answer of the tool
RequestTransfer ==
    /\ returned.op = "none"
    /\ \E tool_input \in TransferInputs, pod_names \in NameLists,
          port_names \in NameLists :
         LET pods == Items(PodIds, pod_names)
             ports == Items(PortIds, port_names)
         IN  returned' = [op |-> "request_transfer", tool_input |-> tool_input,
                          pods |-> pods, ports |-> ports,
                          out |-> execute_tool("request_transfer", tool_input,
                                               pods, ports)]
    /\ UNCHANGED lookup_vars

ToolNext ==
    \/ FindAccount
    \/ GetPodBalance
    \/ ClientGetPodBalance
    \/ RequestTransfer

ToolSpec == ToolInit /\ [][ToolNext]_vars

\* ------------------------------------------- a process holding a tracker
\* the daily-limits file found at start; day 0 is today, 2025-06-01 say
InitialFiles ==
    { FileAbsent, FileUnreadable, FileNotJson, JsonList, JsonNumber,
      Object(0 :> Scalar),
      Object(0 :> FlatList(<< Entry(0, 3000, 0) >>)),
      Object((-3 :> FlatList(<< Entry(0, 9999, 0) >>))
             @@ (-2 :> FlatList(<< Entry(0, 500, 0) >>))
             @@ (0 :> ActorKeyed("101" :> << Entry(0, 6000, 0) >>))),
      Object((-3 :> ActorKeyed("101" :> << Entry(0, 5000, 0) >>))
             @@ (-1 :> ActorKeyed("202" :> << Entry(0, 9000, 0) >>))
             @@ (0 :> ActorKeyed(("101" :> << Entry(0, 6000, 0) >>)
                                 @@ (_GLOBAL_KEY :> << Entry(0, 1000, 0) >>)))) }

RecordAmounts == {3000, 8000}
CheckAmounts == {2000, 5000}

\* the variables of the bot and the server, which a tracker process lacks
frozen == <<pending, staged_this_turn, last_activity, turn, records, audit,
            calls, executed, left, reply, deployment, requests, cvars>>

TrackerInit ==
    /\ deployment = "tracker"
    /\ now = 300
    /\ ticks = 0
    /\ pending = << >>
    /\ nextId = 0
    /\ staged_this_turn = << >>
    /\ last_activity = 0
    /\ turn = "idle"
    /\ records = << >>
    /\ audit = << >>
    /\ calls = [i \in Ids |-> 0]
    /\ executed = [i \in Ids |-> 0]
    /\ left = [i \in Ids |-> << >>]
    /\ reply = Reply("none", 0, None, "none", FALSE)
    /\ limits_file \in InitialFiles
    /\ tracker = NoTracker
    /\ only = [a \in Actors |-> [tracker |-> NoTracker, file |-> limits_file]]
    /\ returned = NoReturn
    /\ requests = [th \in Threads |-> Idle]
    /\ ComponentsIdle

\* the process (re)starts: DailyLimitTracker(path, max_daily_cents=10000)
Construct ==
    LET c == DailyLimitTracker(limits_file, TestMaxDailyCents, now)
    IN  /\ tracker' = c.tracker
        /\ limits_file' = c.file
        /\ only' = [a \in Actors |->
                       LET ca == DailyLimitTracker(only[a].file, TestMaxDailyCents, now)
                       IN  [tracker |-> ca.tracker, file |-> ca.file]]
        /\ returned' = [NoReturn EXCEPT !.op = "construct", !.raised = c.raised]
        /\ UNCHANGED <<now, ticks, nextId, frozen>>

Record ==
    /\ tracker.alive
    /\ nextId < MaxRecords
    /\ \E amount_cents \in RecordAmounts, user_id \in Actors :
         LET transfer_id == nextId + 1
             r == tracker_record([tracker |-> tracker, file |-> limits_file],
                                 amount_cents, transfer_id, user_id, now)
         IN  /\ nextId' = transfer_id
             /\ tracker' = r.tracker
             /\ limits_file' = r.file
             /\ only' = [a \in Actors |->
                            IF a = user_id
                            THEN LET ra == tracker_record(only[a], amount_cents,
                                                          transfer_id, user_id, now)
                                 IN  [tracker |-> ra.tracker, file |-> ra.file]
                            ELSE only[a]]
             /\ returned' = [NoReturn EXCEPT !.op = "record",
                                !.amount_cents = amount_cents,
                                !.user_id = user_id, !.raised = r.raised]
    /\ UNCHANGED <<now, ticks, frozen>>

Check ==
    /\ tracker.alive
    /\ \E amount_cents \in CheckAmounts, user_id \in Actors :
         LET c == tracker_check(tracker, amount_cents, user_id, now)
         IN  returned' = [op |-> "check", amount_cents |-> amount_cents,
                          user_id |-> user_id, raised |-> c.raised,
                          allowed |-> c.allowed, remaining |-> c.remaining]
    /\ UNCHANGED <<now, ticks, nextId, limits_file, tracker, only, frozen>>

\* midnight passes: date.today() advances
NextDay ==
    /\ ticks < MaxTicks
    /\ ticks' = ticks + 1
    /\ now' = now + 86400
    /\ returned' = NoReturn
    /\ UNCHANGED <<nextId, limits_file, tracker, only, frozen>>

TrackerNext ==
    \/ Construct
    \/ Record
    \/ Check
    \/ NextDay

TrackerSpec == TrackerInit /\ [][TrackerNext]_vars

TypeOK ==
    /\ now \in Nat
    /\ ticks \in 0..(IF deployment = "client" THEN MaxElapses ELSE MaxTicks)
    /\ DOMAIN pending \subseteq Ids
    /\ nextId \in 0..(IF deployment \in {"tracker", "compat"} THEN MaxRecords
                      ELSE IF deployment \in {"http", "client"} THEN MaxRequests
                      ELSE IF deployment = "memory" THEN MaxFactIds
                      ELSE MaxIds)
    /\ turn \in {"idle", None} \cup Users
    /\ deployment \in {"bot", "http", "tracker", "audit", "tools", "memory",
                        "ratelimit", "client", "compat"}
    /\ Len(memory._facts) <= max_facts
    /\ \A u \in Users : Len(_message_timestamps[u]) <= rate_limit_messages
    /\ Len(client.log) <= MaxRequests
    /\ tracker.alive \in BOOLEAN

\* ====================================================== properties checked
ConfirmOps == {"confirm"}
CancelOps == {"cancel", "cancel_transfer"}
RequestErrors == {"error_note", "error_amount", "error_max", "error_daily",
                  "error_source", "error_destination", "error_balance"}
ValidationErrors == {"error_note", "error_amount", "error_max"}

\* the audit lines of one event type about one transfer id
Events(file, event_type, transfer_id) ==
    {k \in 1..Len(file) : /\ file[k].event_type = event_type
                          /\ "transfer_id" \in DOMAIN file[k]
                          /\ file[k].transfer_id = transfer_id}

\* C1: for every transfer id, whatever the outcomes of the remote calls, the
\* remote execute-transfer operation is invoked at most once.
C1_RemoteInvokedAtMostOnce == \A i \in Ids : calls[i] <= 1

\* C2 as stated: an id leaves the pending table only as confirmed, cancelled
\* or expired.
C2_ThreeTerminalOutcomes ==
    \A i \in Ids : \A k \in 1..Len(left[i]) :
        left[i][k] \in {"confirmed", "cancelled", "expired"}

\* C2 amended: an id becomes pending only through a staging request_transfer;
\* it leaves the table at most once, as confirmed, cancelled, expired, failed
\* (the remote call raised a RuntimeError) or reset (process_message cleared
\* the table); once it has left it is never pending again and every later
\* confirm or cancel of it is answered not-found.
C2_Lifecycle ==
    [][\A i \in Ids :
         /\ (i \notin DOMAIN pending /\ i \in DOMAIN pending')
               => /\ reply'.op = "request_transfer"
                  /\ reply'.result = "staged"
                  /\ reply'.id = i
                  /\ left[i] = << >>
         /\ (i \in DOMAIN pending /\ i \notin DOMAIN pending')
               => /\ Len(left'[i]) = 1
                  /\ left'[i][1] \in {"confirmed", "cancelled", "expired", "failed", "reset"}
         /\ left[i] # << >>
               => /\ left'[i] = left[i]
                  /\ i \notin DOMAIN pending'
                  /\ (reply'.id = i /\ reply'.op \in ConfirmOps \cup CancelOps)
                        => reply'.result = "not_found"]_vars

C2_Witness ==
    /\ left[1] = << "failed" >>
    /\ reply.op = "cancel" /\ reply.id = 1 /\ reply.result = "not_found"

C4_RejectedRequestChangesNothing ==
    [][/\ (reply'.op = "request_transfer" /\ reply'.result \in RequestErrors)
            => /\ UNCHANGED <<pending, records, audit, nextId>>
               /\ (reply'.result \in ValidationErrors => ~reply'.remote)
       /\ \A i \in DOMAIN pending' \ DOMAIN pending :
            /\ pending'[i].amount_cents <= max_transfer_amount_cents
            /\ Len(pending'[i].note) <= 100]_vars

C4_Witness ==
    /\ reply.op = "request_transfer" /\ reply.result = "error_max"
    /\ pending # << >>

\* C5: every entry of the pending table has 0 < amount_cents <= the
\* per-transfer ceiling.
C5_PendingAmountPositive ==
    \A i \in DOMAIN pending :
        /\ pending[i].amount_cents > 0
        /\ pending[i].amount_cents <= max_transfer_amount_cents

C5_Witness ==
    /\ pending # << >>
    /\ reply.op = "request_transfer" /\ reply.result = "staged"

C7_FailedConfirmRemovesEntry ==
    [][(/\ reply'.op = "confirm"
        /\ reply'.remote
        /\ reply'.result \in {"failed", "exception"})
       => reply'.id \notin DOMAIN pending']_vars

\* C8: a cancel of a pending transfer owned by A and issued by B # A is
\* answered with a permission error and changes neither the pending table
\* nor the audit log; issued by A it removes the entry, appends exactly one
\* transfer_cancelled line about the id and answers with the cancelled id; a
\* cancel of an unknown id is answered not-found and changes nothing.
C8_CancelOwnership ==
    [][reply'.op \in CancelOps =>
         LET i == reply'.id
             B == reply'.caller
         IN  IF i \notin DOMAIN pending
             THEN /\ reply'.result = "not_found"
                  /\ UNCHANGED <<pending, audit, records, calls>>
             ELSE LET A == pending[i].user_id
                  IN  /\ (A # None /\ B # None /\ A # B)
                          => /\ reply'.result = "permission"
                             /\ UNCHANGED <<pending, audit, records, calls>>
                      /\ (A # None /\ A = B)
                          => /\ reply'.result = "cancelled"
                             /\ i \notin DOMAIN pending'
                             /\ Len(audit') = Len(audit) + 1
                             /\ SubSeq(audit', 1, Len(audit)) = audit
                             /\ audit'[Len(audit')].event_type = "transfer_cancelled"
                             /\ audit'[Len(audit')].transfer_id = i
                             /\ UNCHANGED <<records, calls>>]_vars

C8_Witness ==
    /\ reply.op \in CancelOps /\ reply.result = "permission"
    /\ reply.id \in DOMAIN pending
    /\ pending[reply.id].user_id \notin {None, reply.caller}

\* C9: a confirm of a pending transfer owned by A and issued by B # A is
\* answered with the permission error; it does not call the platform and
\* changes neither the entry, the ledger nor the audit log.
C9_ConfirmByNonOwner ==
    [][\A i \in DOMAIN pending :
         (/\ reply'.op = "confirm" /\ reply'.id = i
          /\ pending[i].user_id \notin {None, reply'.caller})
         => /\ reply'.result = "permission"
            /\ ~reply'.remote
            /\ UNCHANGED <<pending, records, audit, calls, executed>>]_vars

C9_Witness ==
    /\ reply.op = "confirm" /\ reply.result = "permission"
    /\ reply.id \in DOMAIN pending
    /\ calls[reply.id] = 0

\* C10: a cancel or confirm of a pending transfer is refused for ownership
\* exactly when the transfer records an owner, the caller supplies an id and
\* the two differ; with either absent, or both equal, it is not refused.
C10_OwnershipOnlyWhenBothPresent ==
    [][\A i \in DOMAIN pending :
         (reply'.id = i /\ reply'.op \in ConfirmOps \cup CancelOps)
         => (reply'.result = "permission"
               <=> /\ pending[i].user_id # None
                   /\ reply'.caller # None
                   /\ pending[i].user_id # reply'.caller)]_vars

\* an anonymous caller has cancelled a transfer that records an owner
C10_Witness ==
    /\ reply.op = "cancel_transfer" /\ reply.caller = None /\ reply.result = "cancelled"
    /\ \E k \in Events(audit, "transfer_staged", reply.id) : "user_id" \in DOMAIN audit[k]

\* ------------------------------------------------ the tracker process
ActorKeys == Users \cup {_GLOBAL_KEY}

\* the entries a day's value holds for an actor key
EntriesOf(value, key) ==
    IF value.shape = "list" THEN (IF key = _GLOBAL_KEY THEN value.entries ELSE << >>)
    ELSE IF value.shape = "dict"
    THEN (IF key \in DOMAIN value.users THEN value.users[key] ELSE << >>)
    ELSE << >>

\* the day keys of a file
FileDays(f) == IF f.shape = "object" THEN f.days ELSE << >>

IsPrefix(a, b) == Len(a) <= Len(b) /\ SubSeq(b, 1, Len(a)) = a

\* what check(x, user_id) answers when nothing counts against the ceiling
Untouched(x) ==
    [raised |-> FALSE, allowed |-> x <= TestMaxDailyCents,
     remaining |-> TestMaxDailyCents]

\* C11: starting from an empty tracker, each record(a, id) for an actor lowers
\* that actor's remaining by a and nobody else's; check(x) answers
\* allowed = (x <= remaining) with remaining = ceiling - sum of the a_i, which
\* is not clamped at zero; check changes neither the records nor the file.
C11_CheckAfterRecords ==
    [][/\ (returned'.op = "construct" /\ ~returned'.raised
           /\ limits_file.shape = "absent")
          => \A a \in Actors :
               tracker_check(tracker', 0, a, now').remaining = TestMaxDailyCents
       /\ (returned'.op = "record" /\ ~returned'.raised)
          => \A a \in Actors :
               tracker_check(tracker', 0, a, now').remaining
                 = tracker_check(tracker, 0, a, now).remaining
                   - (IF a = returned'.user_id THEN returned'.amount_cents ELSE 0)
       /\ (returned'.op = "check")
          => /\ UNCHANGED <<limits_file, tracker>>
             /\ ~returned'.raised
                  => /\ returned'.allowed
                          <=> (returned'.amount_cents <= returned'.remaining)
                     /\ returned'.remaining
                          = tracker_check(tracker, 0, returned'.user_id, now).remaining]_vars

\* over the ceiling: the remaining amount is negative
C11_Witness ==
    /\ returned.op = "check" /\ ~returned.raised
    /\ returned.remaining < 0 /\ ~returned.allowed
    /\ nextId = 2

\* C12: whenever a tracker is alive, a new tracker built on the same path, on
\* the same day and with the same ceiling answers every check(x, actor) as
\* the live one does.
C12_ReloadReproducesCheck ==
    tracker.alive =>
        LET again == DailyLimitTracker(limits_file, tracker.max_daily_cents, now)
        IN  /\ ~again.raised
            /\ \A x \in CheckAmounts, a \in Actors :
                 tracker_check(again.tracker, x, a, now)
                   = tracker_check(tracker, x, a, now)

C12_Witness ==
    /\ tracker.alive /\ nextId = 2 /\ returned.op = "record"
    /\ tracker_check(tracker, 5000, "101", now).remaining = -1000

\* C13: after a construction that succeeds, the day keys in memory and in
\* the file are exactly the loaded keys that are not below today - 2, and
\* each keeps its entries, whether it was a flat list or an actor-keyed value.
C13_PruneOnConstruction ==
    [][(returned'.op = "construct" /\ ~returned'.raised)
       => LET loaded == FileDays(limits_file)
              kept == {k \in DOMAIN loaded : k >= _today_key(now) - 2}
          IN  /\ DOMAIN tracker'.records = kept
              /\ limits_file.shape = "object"
                    => /\ limits_file'.shape = "object"
                       /\ DOMAIN limits_file'.days = kept
                       /\ \A k \in kept :
                            /\ loaded[k].shape = "scalar"
                                 <=> limits_file'.days[k].shape = "scalar"
                            /\ \A a \in ActorKeys :
                                 EntriesOf(limits_file'.days[k], a)
                                   = EntriesOf(loaded[k], a)
              /\ \A k \in kept :
                   /\ loaded[k].shape = "scalar" <=> tracker'.records[k].shape = "scalar"
                   /\ \A a \in ActorKeys :
                        EntriesOf(tracker'.records[k], a) = EntriesOf(loaded[k], a)]_vars

\* the keys -3 (a flat list) is gone, -2 and 0 are kept
C13_Witness ==
    /\ returned.op = "construct" /\ tracker.alive
    /\ DOMAIN tracker.records = {-2, 0}
    /\ limits_file = Object(tracker.records)
    /\ EntriesOf(tracker.records[-2], _GLOBAL_KEY) = << Entry(0, 500, 0) >>

\* C14: after a construction that succeeds no day value is a flat list, in
\* memory or in the file: each kept flat list is the value {"__global__":
\* list}; a flat list under today's key counts for check() without a user id
\* and for no user's check().
C14_LegacyUpgrade ==
    [][(returned'.op = "construct" /\ ~returned'.raised /\ limits_file.shape = "object")
       => /\ \A d \in DOMAIN tracker'.records :
               /\ tracker'.records[d].shape # "list"
               /\ limits_file'.days[d].shape # "list"
               /\ limits_file.days[d].shape = "list"
                    => /\ tracker'.records[d]
                            = ActorKeyed(_GLOBAL_KEY :> limits_file.days[d].entries)
                       /\ limits_file'.days[d] = tracker'.records[d]
          /\ LET today == _today_key(now)
             IN  (today \in DOMAIN limits_file.days /\ limits_file.days[today].shape = "list")
                 => /\ tracker_check(tracker', 0, None, now').remaining
                         = TestMaxDailyCents - SumAmounts(limits_file.days[today].entries)
                    /\ \A u \in Users, x \in CheckAmounts :
                         tracker_check(tracker', x, u, now') = Untouched(x)]_vars

C14_Witness ==
    /\ returned.op = "construct" /\ tracker.alive /\ _today_key(now) = 0
    /\ tracker.records = (0 :> ActorKeyed(_GLOBAL_KEY :> << Entry(0, 3000, 0) >>))
    /\ limits_file = Object(tracker.records)

\* the legacy file {"2025-06-01": [one entry of 3000 cents]}; day 0 is 2025-06-01
LegacyFile == Object(0 :> FlatList(<< Entry(0, 3000, 0) >>))

\* C15 as stated: loading the legacy file into a tracker with ceiling 10,000
\* migrates it, after which check(5000) returns (true, 7000).
C15_LegacyExample ==
    [][(returned'.op = "construct" /\ limits_file = LegacyFile)
       => /\ ~returned'.raised
          /\ tracker'.records[0] = ActorKeyed(_GLOBAL_KEY :> << Entry(0, 3000, 0) >>)
          /\ tracker_check(tracker', 5000, None, now')
               = [raised |-> FALSE, allowed |-> TRUE, remaining |-> 7000]]_vars

\* C15: loading the legacy file migrates it; check(5000) returns (true, 7000)
\* when the tracker's date is the file's day key, and (true, 10000) on a later
\* date, when the entry no longer counts.
C15_LegacyExampleOnItsDay ==
    [][(returned'.op = "construct" /\ limits_file = LegacyFile)
       => /\ ~returned'.raised
          /\ 0 \in DOMAIN tracker'.records
               => tracker'.records[0]
                    = ActorKeyed(_GLOBAL_KEY :> << Entry(0, 3000, 0) >>)
          /\ tracker_check(tracker', 5000, None, now')
               = [raised |-> FALSE, allowed |-> TRUE,
                  remaining |-> IF _today_key(now) = 0 THEN 7000 ELSE 10000]]_vars

C15_Witness ==
    /\ returned = [op |-> "check", amount_cents |-> 5000, user_id |-> None,
                   raised |-> FALSE, allowed |-> TRUE, remaining |-> 7000]
    /\ nextId = 0
    /\ limits_file = Object(0 :> ActorKeyed(_GLOBAL_KEY :> << Entry(0, 3000, 0) >>))

\* C16: a run and the run that differs from it by leaving out every record
\* call of the actors other than B (the global actor among them) answer
\* every check for B alike; hence so do any two runs that differ only in the
\* record calls of actors other than B.
C16_PerActorIsolation ==
    \A B \in Actors :
        /\ only[B].tracker.alive <=> tracker.alive
        /\ tracker.alive
             => \A x \in CheckAmounts :
                  tracker_check(tracker, x, B, now)
                    = tracker_check(only[B].tracker, x, B, now)

\* user 202 is checked after records of user 101 that its twin run never saw
C16_Witness ==
    /\ returned.op = "check" /\ returned.user_id = "202"
    /\ returned.remaining = TestMaxDailyCents
    /\ tracker_check(tracker, 0, "101", now).remaining = -1000
    /\ only["202"].tracker.records # tracker.records

\* the local date at time t
DayOf(t) == t \div 86400

\* C17: check reads today's key only: dropping every other day key from the
\* records changes no answer, and right after the date advances every actor
\* has the whole ceiling left.
C17_OnlyTodayCounts ==
    [][/\ tracker.alive
          => LET today_only == [tracker EXCEPT !.records =
                                  [d \in DOMAIN tracker.records \cap {DayOf(now)}
                                     |-> tracker.records[d]]]
             IN  \A x \in CheckAmounts, a \in Actors :
                    tracker_check(tracker, x, a, now)
                      = tracker_check(today_only, x, a, now)
       /\ (tracker.alive /\ DayOf(now') # DayOf(now))
          => \A x \in CheckAmounts, a \in Actors :
                tracker_check(tracker', x, a, now') = Untouched(x)]_vars

\* the day after user 101 went over the ceiling
C17_Witness ==
    /\ returned.op = "check" /\ returned.user_id = "101"
    /\ returned.remaining = TestMaxDailyCents
    /\ DayOf(now) = 1
    /\ 0 \in DOMAIN tracker.records
    /\ SumAmounts(EntriesOf(tracker.records[0], "101")) > TestMaxDailyCents

\* the files the claim lists: absent, unreadable, not JSON, JSON of another
\* shape (a top-level list or number, a day value that is a scalar)
Unusable(f) ==
    \/ f.shape \in {"absent", "unreadable", "notjson", "list", "number"}
    \/ f.shape = "object" /\ \E d \in DOMAIN f.days : f.days[d].shape = "scalar"

\* C18: constructing a tracker on such a file never raises and yields empty
\* state; check(x) then returns (x <= ceiling, ceiling).
C18_FailOpenToEmpty ==
    [][(returned'.op = "construct" /\ Unusable(limits_file))
       => /\ ~returned'.raised
          /\ tracker'.alive
          /\ tracker'.records = << >>
          /\ \A x \in CheckAmounts, a \in Actors :
                tracker_check(tracker', x, a, now') = Untouched(x)]_vars

\* C19: in every step, each (day, actor) list of the file and of the live
\* instance's memory keeps its entries as a prefix of the list afterwards,
\* unless the whole day key goes, which only a construction does and only to
\* a key below today - 2.
C19_AppendOnly ==
    [][/\ \A d \in DOMAIN FileDays(limits_file) :
            IF d \in DOMAIN FileDays(limits_file')
            THEN \A k \in ActorKeys :
                    IsPrefix(EntriesOf(limits_file.days[d], k),
                             EntriesOf(limits_file'.days[d], k))
            ELSE returned'.op = "construct" /\ ~returned'.raised
                 /\ d < _today_key(now) - 2
       /\ (tracker.alive /\ tracker'.alive)
          => \A d \in DOMAIN tracker.records :
                IF d \in DOMAIN tracker'.records
                THEN \A k \in ActorKeys :
                        IsPrefix(EntriesOf(tracker.records[d], k),
                                 EntriesOf(tracker'.records[d], k))
                ELSE returned'.op = "construct" /\ d < _today_key(now) - 2]_vars

\* user 101's entry from the file, followed by two records of the run
C19_Witness ==
    /\ limits_file.shape = "object" /\ tracker.alive
    /\ 0 \in DOMAIN limits_file.days
    /\ Len(EntriesOf(limits_file.days[0], "101")) = 3
    /\ EntriesOf(limits_file.days[0], "101")[1] = Entry(0, 6000, 0)
    /\ limits_file.days = tracker.records

\* the spend entries of the ledger, of either deployment
LedgerEntries(recs) ==
    IF deployment = "http"
    THEN UNION {{recs[d][k] : k \in 1..Len(recs[d])} : d \in DOMAIN recs}
    ELSE UNION {UNION {{recs[d][u][k] : k \in 1..Len(recs[d][u])} : u \in DOMAIN recs[d]}
                : d \in DOMAIN recs}

\* C20: the ledger changes only in the step in which the remote call made
\* for that transfer returned success (bot confirm, HTTP create-transfer),
\* by one entry for that transfer; so every entry made in the run belongs to
\* a transfer the platform executed.
C20_RecordOnlyAfterSuccess ==
    [][/\ records' # records
          => /\ reply'.remote
             /\ reply'.id \in Ids
             /\ executed'[reply'.id] = executed[reply'.id] + 1
             /\ calls'[reply'.id] = calls[reply'.id] + 1
             /\ IF deployment = "bot"
                THEN reply'.op = "confirm" /\ reply'.result = "confirmed"
                ELSE reply'.op = "create_transfer" /\ reply'.result = "completed"
             /\ \E e \in LedgerEntries(records') :
                  /\ e.transfer_id = reply'.id
                  /\ LedgerEntries(records') = LedgerEntries(records) \cup {e}
       /\ \A e \in LedgerEntries(records') :
             e.transfer_id # 0 => executed'[e.transfer_id] >= 1]_vars

C20_Witness ==
    /\ deployment = "bot"
    /\ reply.op = "confirm" /\ reply.result = "confirmed"
    /\ \E e \in LedgerEntries(records) : e.transfer_id = reply.id /\ executed[reply.id] = 1

\* the entries that today's ledger holds for an actor (the flat list of the
\* day for the HTTP server, which knows one actor only)
TodayOf(recs, user_id, t) ==
    IF DayOf(t) \notin DOMAIN recs THEN << >>
    ELSE IF deployment = "http" THEN recs[DayOf(t)]
    ELSE IF _user_key(user_id) \in DOMAIN recs[DayOf(t)]
         THEN recs[DayOf(t)][_user_key(user_id)]
    ELSE << >>

\* what check() calls the remaining allowance of an actor
Remaining(recs, user_id, t) ==
    IF deployment = "http" THEN api_check(recs, 0, t).remaining
    ELSE check(recs, 0, user_id, t).remaining

\* C21: the step in which the platform executes a transfer appends one
\* entry to today's ledger of the acting actor, holding the transfer's id
\* and the executed amount, leaves every other entry alone, and ends with one
\* transfer_confirmed (bot) or transfer_completed (HTTP) audit event of that
\* id and amount; the actor's remaining allowance drops by exactly the
\* amount, and the ledger holds one entry per executed transfer.
C21_ExecutedRecordedOnce ==
    [][/\ \A i \in Ids : executed'[i] # executed[i] =>
             LET last == audit'[Len(audit')]
                 amount == IF deployment = "bot" THEN pending[i].amount_cents
                           ELSE audit'[Len(audit) + 1].amount_cents
                 actor == reply'.caller
                 kind == IF deployment = "bot" THEN "transfer_confirmed"
                         ELSE "transfer_completed"
             IN  /\ executed'[i] = executed[i] + 1
                 /\ TodayOf(records', actor, now')
                      = Append(TodayOf(records, actor, now'), Entry(i, amount, now'))
                 /\ Cardinality(LedgerEntries(records'))
                      = Cardinality(LedgerEntries(records)) + 1
                 /\ LedgerEntries(records) \subseteq LedgerEntries(records')
                 /\ Remaining(records', actor, now')
                      = Remaining(records, actor, now') - amount
                 /\ Len(audit') = Len(audit) + (IF deployment = "bot" THEN 1 ELSE 2)
                 /\ SubSeq(audit', 1, Len(audit)) = audit
                 /\ last.event_type = kind
                 /\ last.transfer_id = i /\ last.amount_cents = amount
                 /\ Cardinality(Events(audit', kind, i)) = 1
                 /\ deployment = "bot" => "user_id" \in DOMAIN last /\ last.user_id = actor
       /\ \A i \in Ids :
             Cardinality({e \in LedgerEntries(records') : e.transfer_id = i})
               = executed'[i]]_vars

\* a user who had spent nothing today confirmed a transfer of 10,000.00
C21_Witness ==
    /\ deployment = "bot"
    /\ reply.op = "confirm" /\ reply.result = "confirmed" /\ reply.caller = "101"
    /\ executed[reply.id] = 1
    /\ TodayOf(records, "101", now) = << Entry(reply.id, 1000000, now) >>
    /\ Remaining(records, "101", now) = max_daily_transfer_cents - 1000000
    /\ audit[Len(audit)].event_type = "transfer_confirmed"

\* the entries that the run added to today's ledger (the one found at start
\* has the id 0)
RunEntries(recs, t) ==
    LET today == TodayOf(recs, None, t)
    IN  {k \in 1..Len(today) : today[k].transfer_id # 0}

\* C22: with two requests in flight at a time, the total recorded for the
\* day never exceeds the ceiling by more than the amount of one of the
\* transfers recorded in the run.
C22_RaceExcessBounded ==
    LET total == api_total_today(records, now)
        today == TodayOf(records, None, now)
    IN  total > server_max_daily_transfer_cents
        => \E k \in RunEntries(records, now) :
              total - server_max_daily_transfer_cents <= today[k].amount_cents

\* both requests passed check() before either was recorded, and both were
\* recorded: 24,000 + 600 + 1,000 dollars against a ceiling of 25,000
C22_Witness ==
    /\ \A th \in Threads : requests[th].pc = "idle"
    /\ Cardinality(RunEntries(records, now)) = 2
    /\ api_total_today(records, now) = server_max_daily_transfer_cents + 60000
    /\ Len(audit) = 4
    /\ audit[1].event_type = "transfer_requested"
    /\ audit[2].event_type = "transfer_requested"
    /\ audit[3].event_type = "transfer_completed"
    /\ audit[4].event_type = "transfer_completed"

\* C23: the line that log() writes holds event_type and timestamp, and each
\* of the eight optional fields exactly when the call gave it a value that
\* is not None (0 and the empty string included), with that value; it holds
\* no other key, so no field is written as null.
C23_FieldsExactlyWhenGiven ==
    returned # << >> =>
        LET line == audit[Len(audit)]
            call == returned[Len(returned)]
        IN  /\ DOMAIN line \subseteq AuditFields \cup {"event_type", "timestamp"}
            /\ "event_type" \in DOMAIN line /\ line.event_type = call.event_type
            /\ "timestamp" \in DOMAIN line /\ line.timestamp = call.t
            /\ \A k \in AuditFields :
                 /\ k \in DOMAIN line <=> call.args[k] # Absent
                 /\ k \in DOMAIN line => line[k] \in call.args[k]

\* a call that gave amount_cents = 0 and no other field
C23_Witness ==
    /\ returned # << >>
    /\ returned[Len(returned)].args
         = [[k \in AuditFields |-> Absent] EXCEPT !["amount_cents"] = Opt(0)]
    /\ DOMAIN audit[Len(audit)] = {"event_type", "timestamp", "amount_cents"}
    /\ audit[Len(audit)].amount_cents = 0

\* C24: a call of log() adds exactly one line at the end of the audit file
\* and leaves the lines before it as they were, so the lines are in the
\* order of the calls.
C24_AuditAppendOnly ==
    [][/\ Len(returned') = Len(returned) + 1
          => /\ Len(audit') = Len(audit) + 1
             /\ SubSeq(audit', 1, Len(audit)) = audit
       /\ Len(audit') = Len(returned')
       /\ \A i \in 1..Len(audit') :
             /\ audit'[i].timestamp = returned'[i].t
             /\ audit'[i].event_type = returned'[i].event_type]_vars

\* two calls were made, at different times and of different event types
C24_Witness ==
    /\ Len(returned) = 2 /\ Len(audit) = 2
    /\ returned[1].event_type = "transfer_staged" /\ audit[1].event_type = "transfer_staged"
    /\ returned[2].event_type = "transfer_failed" /\ audit[2].event_type = "transfer_failed"
    /\ audit[1].timestamp < audit[2].timestamp

\* the audit lines that a step appended about one transfer id
NewEvents(before, after, event_types, transfer_id) ==
    {k \in (Len(before) + 1)..Len(after) :
        /\ after[k].event_type \in event_types
        /\ "transfer_id" \in DOMAIN after[k]
        /\ after[k].transfer_id = transfer_id}

RemovalEvents == {"transfer_confirmed", "transfer_cancelled", "transfer_expired",
                  "transfer_failed"}

\* C25: the step that puts a transfer into the pending table appends a
\* transfer_staged event of its id to the audit file, and the step that takes
\* one out appends a transfer_confirmed, transfer_cancelled, transfer_expired
\* or transfer_failed event of its id.
C25_EveryTransitionAudited ==
    [][\A i \in Ids :
          /\ (i \in DOMAIN pending' /\ i \notin DOMAIN pending)
                => NewEvents(audit, audit', {"transfer_staged"}, i) # {}
          /\ (i \in DOMAIN pending /\ i \notin DOMAIN pending')
                => NewEvents(audit, audit', RemovalEvents, i) # {}]_vars

\* the positions of items whose name equals the query, case ignored
ExactAt(name, items) == {i \in 1..Len(items) : lower(items[i].name) = lower(name)}

\* the positions of items whose name contains the query, case ignored
ContainsAt(name, items) ==
    {i \in 1..Len(items) : IsSubstring(lower(name), lower(items[i].name))}

\* C26: when a pod or a port has the query as its name, case ignored, the
\* resolution returns such an account, whatever the number of accounts that
\* contain the query: the first such pod, and the first such port when no
\* pod has the name.
C26_ExactMatchWins ==
    returned.op = "_find_account_by_name" =>
        LET pod_hits == ExactAt(returned.name, returned.pods)
            port_hits == ExactAt(returned.name, returned.ports)
            out == returned.out
        IN  /\ pod_hits # {} =>
                 /\ out.found /\ out.type = "POD"
                 /\ \E i \in pod_hits :
                      /\ \A j \in pod_hits : i <= j
                      /\ out.id = returned.pods[i].id
                      /\ out.name = returned.pods[i].name
            /\ (pod_hits = {} /\ port_hits # {}) =>
                 /\ out.found /\ out.type = "PORT"
                 /\ \E i \in port_hits :
                      /\ \A j \in port_hits : i <= j
                      /\ out.id = returned.ports[i].id
                      /\ out.name = returned.ports[i].name

\* "rent" against the pods Rental and RENT and the ports Rent and Rental:
\* four accounts contain it, two have it as their name, the pod is returned
C26_Witness ==
    /\ returned.op = "_find_account_by_name"
    /\ returned.name = <<"r","e","n","t">>
    /\ Len(returned.pods) = 2 /\ returned.pods[1].name = <<"R","e","n","t","a","l">>
    /\ returned.pods[2].name = <<"R","E","N","T">>
    /\ Len(returned.ports) = 2 /\ returned.ports[1].name = <<"R","e","n","t">>
    /\ returned.out.found /\ returned.out.id = "p2" /\ returned.out.type = "POD"

\* C27: when no pod has the query as its name, get_pod_balance returns a pod
\* exactly when one pod contains the query, and then that pod; when none
\* does, the error carries the hint to list all pods; when several do, the
\* error lists the names of exactly these pods and no pod is returned.
C27_SingleSubstringOnly ==
    (/\ returned.op = "get_pod_balance"
     /\ "pod_name" \in DOMAIN returned.tool_input
     /\ ExactAt(returned.tool_input.pod_name, returned.pods) = {}) =>
        LET hits == ContainsAt(returned.tool_input.pod_name, returned.pods)
            out == returned.out
        IN  /\ ~out.raised
            /\ out.result = "pod" <=> Cardinality(hits) = 1
            /\ out.result = "pod" =>
                 /\ out.account.found
                 /\ \E i \in hits : /\ out.account.id = returned.pods[i].id
                                    /\ out.account.name = returned.pods[i].name
            /\ out.result # "pod" => out.result = "error_pod" /\ ~out.account.found
            /\ hits = {} => out.suggestion.kind = "hint" /\ out.suggestion.names = << >>
            /\ Cardinality(hits) >= 2 =>
                 /\ out.suggestion.kind = "did_you_mean"
                 /\ Len(out.suggestion.names) = Cardinality(hits)
                 /\ \A i \in hits : \E k \in 1..Len(out.suggestion.names) :
                        out.suggestion.names[k] = returned.pods[i].name

\* "REN" against the pods Rent and Rental: no pod, both names suggested
C27_Witness ==
    /\ returned.op = "get_pod_balance"
    /\ "pod_name" \in DOMAIN returned.tool_input
    /\ returned.tool_input.pod_name = <<"R","E","N">>
    /\ Len(returned.pods) = 2
    /\ returned.out.result = "error_pod"
    /\ returned.out.suggestion.names = << <<"R","e","n","t">>, <<"R","e","n","t","a","l">> >>

\* the name that request_transfer could not resolve
Unresolved(r) ==
    IF r.out.result = "error_source" THEN r.tool_input.source_name
    ELSE r.tool_input.destination_name

\* C28: when request_transfer resolves no source or no destination, the
\* error names exactly the pods and ports that contain the query when there
\* are two or more of them, and gives the hint to list all accounts exactly
\* when no pod and no port contains the query.
C28_SuggestionCoversPodsAndPorts ==
    (/\ returned.op = "request_transfer"
     /\ returned.out.result \in {"error_source", "error_destination"}) =>
        LET name == Unresolved(returned)
            pod_hits == ContainsAt(name, returned.pods)
            port_hits == ContainsAt(name, returned.ports)
            suggestion == returned.out.suggestion
            listed == {suggestion.names[k] : k \in 1..Len(suggestion.names)}
        IN  /\ suggestion.kind = "hint" <=> (pod_hits = {} /\ port_hits = {})
            /\ Cardinality(pod_hits) + Cardinality(port_hits) >= 2 =>
                 /\ suggestion.kind = "did_you_mean"
                 /\ listed = {returned.pods[i].name : i \in pod_hits}
                               \cup {returned.ports[i].name : i \in port_hits}

\* C29: execute_tool returns a result, and does not raise, also when the
\* input of get_pod_balance or of request_transfer lacks a required field.
C29_MissingFieldIsAnError ==
    returned.op \in {"get_pod_balance", "request_transfer"} => ~returned.out.raised

\* C30: on the HTTP route, the step in which the remote call raises a
\* RuntimeError appends exactly one transfer_failed event after the request's
\* transfer_requested event, records nothing, and answers 400 when the
\* message is a "Transfer failed:" one and 502 otherwise; a request over the
\* per-transfer or the daily limit is answered with an error in its first
\* step, with no audit event, no record and no remote call.
C30_FailuresAndRejections ==
    [][\A th \in Threads :
          LET before == requests[th]
              after == requests'[th]
              last == audit'[Len(audit')]
              remaining == api_check(records, 0, now).remaining
          IN  /\ (before.pc = "requested" /\ after.pc = "idle") =>
                   /\ records' = records
                   /\ reply'.result \in {"failed_400", "failed_502", "exception"}
                   /\ reply'.result \in {"failed_400", "failed_502"} =>
                        /\ audit' = Append(audit, last)
                        /\ last.event_type = "transfer_failed"
                        /\ last.amount_cents = before.amount_cents
                        /\ reply'.result = "failed_400" <=> last.error = "TransferFailed"
                        /\ \E k \in 1..Len(audit) :
                              /\ audit[k].event_type = "transfer_requested"
                              /\ audit[k].amount_cents = before.amount_cents
              /\ (before.pc = "idle" /\ reply'.caller = th) =>
                   /\ reply'.result = "error_max" <=> after.amount_cents > max_transfer_cents
                   /\ reply'.result = "error_daily" <=>
                        /\ after.amount_cents <= max_transfer_cents
                        /\ after.amount_cents > remaining
                   /\ reply'.result \in {"error_max", "error_daily"} =>
                        /\ audit' = audit /\ records' = records
                        /\ after.pc = "idle" /\ ~reply'.remote]_vars

\* the platform was unreachable for a request of 600.00: answered 502 after
\* transfer_requested and transfer_failed, the ledger as it was
C30_Witness ==
    /\ deployment = "http"
    /\ reply.op = "create_transfer" /\ reply.result = "failed_502"
    /\ requests[reply.caller].pc = "idle" /\ requests[reply.caller].amount_cents = 60000
    /\ Len(audit) = 2
    /\ audit[1].event_type = "transfer_requested"
    /\ audit[2].event_type = "transfer_failed" /\ audit[2].error = "RuntimeError"
    /\ records = ApiPriorRecords

\* the ids of a list
ListedIds(ids) == {ids[k] : k \in 1..Len(ids)}

\* C32: staged_this_turn is emptied when process_message starts and grows
\* only by the ids that request_transfer stages during the call, and when
\* the call returns every id in it is in the pending table.
C32_StagedIdsArePending ==
    [][/\ (reply'.op = "process_message" /\ reply'.result \in {"begin", "reset"})
            => staged_this_turn' = << >>
       /\ (staged_this_turn' # staged_this_turn /\ reply'.op # "process_message")
            => \E i \in Ids : /\ i \notin DOMAIN pending /\ i \in DOMAIN pending'
                              /\ staged_this_turn' = Append(staged_this_turn, i)
       /\ (reply'.op = "process_message" /\ reply'.result = "end")
            => ListedIds(staged_this_turn') \subseteq DOMAIN pending']_vars


\* C33: when a transfer is confirmed, the amount of the pending entry, fixed
\* when it was staged, is the amount of its transfer_staged audit event, the
\* amount sent to the platform, the amount of the new ledger entry and the
\* amount of the transfer_confirmed audit event; the pending entry's amount
\* never changes while it is in the table.
C33_OneAmountEverywhere ==
    [][/\ \A i \in DOMAIN pending \cap DOMAIN pending' :
             pending'[i].amount_cents = pending[i].amount_cents
       /\ \A i \in DOMAIN pending' \ DOMAIN pending :
             \A k \in NewEvents(audit, audit', {"transfer_staged"}, i) :
                audit'[k].amount_cents = pending'[i].amount_cents
       /\ (reply'.op = "confirm" /\ reply'.result = "confirmed") =>
             LET i == reply'.id
                 amount == pending[i].amount_cents
             IN  /\ Events(audit, "transfer_staged", i) # {}
                 /\ \A k \in Events(audit, "transfer_staged", i) :
                       audit[k].amount_cents = amount
                 /\ reply'.sent = amount
                 /\ {e.amount_cents : e \in {x \in LedgerEntries(records') :
                                                x.transfer_id = i}} = {amount}
                 /\ NewEvents(audit, audit', {"transfer_confirmed"}, i) # {}
                 /\ \A k \in NewEvents(audit, audit', {"transfer_confirmed"}, i) :
                       audit'[k].amount_cents = amount]_vars

\* a transfer staged as 10,000 dollars was confirmed with 1,000,000 cents
C33_Witness ==
    /\ deployment = "bot"
    /\ reply.op = "confirm" /\ reply.result = "confirmed" /\ reply.sent = 1000000
    /\ \E k \in Events(audit, "transfer_staged", reply.id) :
          audit[k].amount_cents = 1000000
    /\ \E e \in LedgerEntries(records) :
          e.transfer_id = reply.id /\ e.amount_cents = 1000000


\* ------------------------------------------------------------ MemoryStore
Contents == {"likes rent", "gas is fuel"}

Fact(id, content, created_by) == [id |-> id, content |-> content, created_by |-> created_by]

\* _save: the file holds what the list holds
Written(facts) == [_facts |-> facts, file |-> facts]

\* the place of the first fact with that id, 0 without one
FactAt(facts, fact_id) ==
    IF \E k \in 1..Len(facts) : facts[k].id = fact_id
    THEN CHOOSE k \in 1..Len(facts) :
            /\ facts[k].id = fact_id
            /\ \A j \in 1..(k - 1) : facts[j].id # fact_id
    ELSE 0

\* variant: the store is full only when it holds more than max_facts facts
save_over(store, content, created_by, id) ==
    IF Len(store._facts) > max_facts
    THEN [raised |-> "ValueError", store |-> store]
    ELSE [raised |-> "none",
          store |-> Written(Append(store._facts, Fact(id, content, created_by)))]

\* MemoryStore.save; id is the uuid4 of the new fact
save(store, content, created_by, id) ==
    IF Len(store._facts) >= max_facts
    THEN [raised |-> "ValueError", store |-> store]
    ELSE [raised |-> "none",
          store |-> Written(Append(store._facts, Fact(id, content, created_by)))]

\* MemoryStore.update
update(store, fact_id, content) ==
    LET k == FactAt(store._facts, fact_id)
    IN  IF k = 0 THEN [raised |-> "KeyError", store |-> store]
        ELSE [raised |-> "none",
              store |-> Written([store._facts EXCEPT ![k].content = content])]

\* MemoryStore.delete
delete(store, fact_id) ==
    LET k == FactAt(store._facts, fact_id)
    IN  IF k = 0 THEN [raised |-> "KeyError", store |-> store]
        ELSE [raised |-> "none",
              store |-> Written([j \in 1..(Len(store._facts) - 1) |->
                                   IF j < k THEN store._facts[j]
                                   ELSE store._facts[j + 1]])]

\* tool_input.fact_id when the model gave none
NoFactId == 0

\* the save_memory tool: an update when a fact id is given, else a save
_handle_save_memory(tool_input, store, user_name, id) ==
    IF tool_input.fact_id # NoFactId
    THEN LET u == update(store, tool_input.fact_id, tool_input.content)
         IN  [result |-> IF u.raised = "KeyError" THEN "error" ELSE "updated",
              raised |-> u.raised, store |-> u.store]
    ELSE LET v == save(store, tool_input.content,
                       IF user_name = None THEN "unknown" ELSE user_name, id)
         IN  [result |-> IF v.raised = "ValueError" THEN "error" ELSE "created",
              raised |-> v.raised, store |-> v.store]

\* the delete_memory tool
_handle_delete_memory(tool_input, store) ==
    LET d == delete(store, tool_input.fact_id)
    IN  [result |-> IF d.raised = "KeyError" THEN "error" ELSE "deleted",
         raised |-> d.raised, store |-> d.store]

\* the facts found in the file at start have the ids 11, 12, ...
LoadedFacts(n) == [k \in 1..n |-> Fact(10 + k, "likes rent", "ann")]

\* the ids that the model may name: the loaded ones, the new ones and one
\* that no fact ever had
AskedFactIds == {10 + k : k \in 1..max_facts} \cup 1..MaxFactIds \cup {99}

MemoryInit ==
    /\ deployment = "memory"
    /\ limits_file = FileAbsent
    /\ tracker = NoTracker
    /\ only = [a \in Actors |-> [tracker |-> NoTracker, file |-> FileAbsent]]
    /\ returned = [op |-> "none"]
    /\ now = 300
    /\ ticks = 0
    /\ pending = << >>
    /\ nextId = 0
    /\ staged_this_turn = << >>
    /\ last_activity = 0
    /\ turn = "idle"
    /\ records = << >>
    /\ audit = << >>
    /\ calls = [i \in Ids |-> 0]
    /\ executed = [i \in Ids |-> 0]
    /\ left = [i \in Ids |-> << >>]
    /\ reply = Reply("none", 0, None, "none", FALSE)
    /\ requests = [th \in Threads |-> Idle]
    /\ \E n \in 0..max_facts : memory = Written(LoadedFacts(n))
    /\ _message_timestamps = NoTimestamps
    /\ client = NewClient

memory_frame == <<now, ticks, pending, staged_this_turn, last_activity, turn, records,
                  audit, calls, executed, left, reply, deployment, limits_file,
                  tracker, only, requests, _message_timestamps, client>>

SaveMemory ==
    \E content \in Contents, fact_id \in AskedFactIds \cup {NoFactId},
       user_name \in {None, "ann"} :
        LET tool_input == [content |-> content, fact_id |-> fact_id]
            r == _handle_save_memory(tool_input, memory, user_name, nextId + 1)
        IN  /\ r.result = "created" => nextId < MaxFactIds
            /\ memory' = r.store
            /\ nextId' = IF r.result = "created" THEN nextId + 1 ELSE nextId
            /\ returned' = [op |-> "save_memory", tool_input |-> tool_input,
                            result |-> r.result, raised |-> r.raised]
            /\ UNCHANGED memory_frame

DeleteMemory ==
    \E fact_id \in AskedFactIds :
        LET tool_input == [fact_id |-> fact_id]
            r == _handle_delete_memory(tool_input, memory)
        IN  /\ memory' = r.store
            /\ returned' = [op |-> "delete_memory", tool_input |-> tool_input,
                            result |-> r.result, raised |-> r.raised]
            /\ UNCHANGED <<nextId, memory_frame>>

MemoryNext == SaveMemory \/ DeleteMemory

MemorySpec == MemoryInit /\ [][MemoryNext]_vars

FactIdsOf(store) == {store._facts[k].id : k \in 1..Len(store._facts)}

\* C31: the store never holds more than max_facts facts; a save into a full
\* store raises ValueError and an update or delete of an id that no fact has
\* raises KeyError, each answered with an error result and leaving the
\* facts and the file as they were; every other call succeeds and the file
\* holds the facts.
C31_CapacityKept ==
    [][/\ Len(memory'._facts) <= max_facts
       /\ memory'.file = memory'._facts
       /\ (returned'.op = "save_memory" /\ returned'.tool_input.fact_id = NoFactId) =>
             IF Len(memory._facts) >= max_facts
             THEN /\ returned'.raised = "ValueError" /\ returned'.result = "error"
                  /\ memory' = memory
             ELSE /\ returned'.raised = "none" /\ returned'.result = "created"
                  /\ Len(memory'._facts) = Len(memory._facts) + 1
       /\ (\/ returned'.op = "delete_memory"
           \/ returned'.op = "save_memory" /\ returned'.tool_input.fact_id # NoFactId) =>
             IF returned'.tool_input.fact_id \notin FactIdsOf(memory)
             THEN /\ returned'.raised = "KeyError" /\ returned'.result = "error"
                  /\ memory' = memory
             ELSE /\ returned'.raised = "none"
                  /\ returned'.result \in {"updated", "deleted"}]_vars

\* a save into a full store was refused
C31_Witness ==
    /\ deployment = "memory"
    /\ returned.op = "save_memory" /\ returned.raised = "ValueError"
    /\ Len(memory._facts) = max_facts
    /\ \E k \in 1..Len(memory._facts) : memory._facts[k].id \in 1..MaxFactIds


\* C34: on the same query and pods, _find_pod, SequenceClient.get_pod_balance
\* and _find_account_by_name without ports find a pod in the same cases, and
\* then the pod of the same id.
C34_ThreeResolversAgree ==
    (/\ returned.op \in {"_find_account_by_name", "SequenceClient.get_pod_balance"}
     /\ returned.ports = << >>) =>
        LET a == _find_account_by_name(returned.name, returned.pods, << >>)
            b == get_pod_balance(returned.name, returned.pods)
            p == _find_pod(returned.name, returned.pods)
        IN  /\ returned.out \in {a, b}
            /\ a.found = b.found /\ a.found = p.found
            /\ a.found => a.id = b.id /\ a.id = p.id /\ a.type = "POD"

\* the client found the one pod that contains the query, among two
C34_Witness ==
    /\ deployment = "tools"
    /\ returned.op = "SequenceClient.get_pod_balance"
    /\ Len(returned.pods) = 2
    /\ ExactAt(returned.name, returned.pods) = {}
    /\ returned.out.found /\ returned.out.id = "p2"
    /\ _find_account_by_name(returned.name, returned.pods, << >>).id = "p2"


\* ----------------------------------------------------------- rate limiter
rate_limit_window_seconds == 60

\* the seconds between one call and the next
RateSteps == {0, 1, 59, 60, 61}

\* the loop that pops the timestamps older than the window from the left
RECURSIVE DropExpired(_, _, _)
DropExpired(timestamps, t, window_seconds) ==
    IF timestamps # << >> /\ t - Head(timestamps) > window_seconds
    THEN DropExpired(Tail(timestamps), t, window_seconds)
    ELSE timestamps

\* variant: the call is counted even when it is refused
_is_rate_limited_counting(table, user_id, max_messages, window_seconds, t) ==
    LET timestamps == DropExpired(table[user_id], t, window_seconds)
    IN  [limited |-> Len(timestamps) >= max_messages,
         table |-> [table EXCEPT ![user_id] = Append(timestamps, t)]]

\* _is_rate_limited at time t: the answer and the table afterwards
_is_rate_limited(table, user_id, max_messages, window_seconds, t) ==
    LET timestamps == DropExpired(table[user_id], t, window_seconds)
    IN  IF Len(timestamps) >= max_messages
        THEN [limited |-> TRUE, table |-> [table EXCEPT ![user_id] = timestamps]]
        ELSE [limited |-> FALSE,
              table |-> [table EXCEPT ![user_id] = Append(timestamps, t)]]

RateInit ==
    /\ deployment = "ratelimit"
    /\ limits_file = FileAbsent
    /\ tracker = NoTracker
    /\ only = [a \in Actors |-> [tracker |-> NoTracker, file |-> FileAbsent]]
    /\ returned = << >>
    /\ now = 300
    /\ ticks = 0
    /\ pending = << >>
    /\ nextId = 0
    /\ staged_this_turn = << >>
    /\ last_activity = 0
    /\ turn = "idle"
    /\ records = << >>
    /\ audit = << >>
    /\ calls = [i \in Ids |-> 0]
    /\ executed = [i \in Ids |-> 0]
    /\ left = [i \in Ids |-> << >>]
    /\ reply = Reply("none", 0, None, "none", FALSE)
    /\ requests = [th \in Threads |-> Idle]
    /\ ComponentsIdle

\* a message of user_id arrives step seconds after the last one; returned is
\* the list of the calls made so far
IsRateLimited ==
    /\ Len(returned) < MaxRateCalls
    /\ \E user_id \in Users, step \in RateSteps :
         LET r == _is_rate_limited(_message_timestamps, user_id, rate_limit_messages,
                                   rate_limit_window_seconds, now + step)
         IN  /\ now' = now + step
             /\ _message_timestamps' = r.table
             /\ returned' = Append(returned, [user_id |-> user_id, t |-> now + step,
                                              limited |-> r.limited])
    /\ UNCHANGED <<ticks, pending, nextId, staged_this_turn, last_activity, turn,
                   records, audit, calls, executed, left, reply, deployment,
                   limits_file, tracker, only, requests, memory, client>>

RateNext == IsRateLimited

RateSpec == RateInit /\ [][RateNext]_vars

\* the calls before call k that were accepted for the same user and are at
\* most the window old at call k
Counted(history, k) ==
    {j \in 1..(k - 1) : /\ history[j].user_id = history[k].user_id
                        /\ ~history[j].limited
                        /\ history[k].t - history[j].t <= rate_limit_window_seconds}

\* C36: a call is accepted exactly when fewer than max_messages accepted
\* calls of the same user are at most the window old (refused calls and
\* other users' calls do not count); so no user has more than max_messages
\* accepted calls within one window, and a refused user is accepted at the
\* next call made after the oldest counted call left the window.
C36_SlidingWindow ==
    /\ \A k \in 1..Len(returned) :
          ~returned[k].limited <=>
             Cardinality(Counted(returned, k)) < rate_limit_messages
    /\ \A k \in 1..Len(returned) :
          Cardinality({j \in 1..k : /\ returned[j].user_id = returned[k].user_id
                                     /\ ~returned[j].limited
                                     /\ returned[k].t - returned[j].t
                                          <= rate_limit_window_seconds})
            <= rate_limit_messages
    /\ \A k \in 1..Len(returned) : \A n \in (k + 1)..Len(returned) :
          (/\ returned[k].limited
           /\ returned[n].user_id = returned[k].user_id
           /\ \A j \in (k + 1)..(n - 1) : returned[j].user_id # returned[k].user_id
           /\ \E o \in Counted(returned, k) :
                 /\ \A j \in Counted(returned, k) : o <= j
                 /\ returned[n].t - returned[o].t > rate_limit_window_seconds)
            => ~returned[n].limited
    /\ \A u \in Users : \A i \in 1..Len(_message_timestamps[u]) :
          \E j \in 1..Len(returned) : /\ returned[j].user_id = u /\ ~returned[j].limited
                                      /\ returned[j].t = _message_timestamps[u][i]

\* a user was refused a message and accepted again at most a second later,
\* when the oldest counted message had left the window
C36_Witness ==
    /\ deployment = "ratelimit"
    /\ Len(returned) >= 4
    /\ \E k \in 1..Len(returned) : \E n \in (k + 1)..Len(returned) :
          /\ returned[k].limited /\ ~returned[n].limited
          /\ returned[n].user_id = returned[k].user_id
          /\ returned[n].t - returned[k].t <= 1


\* --------------------------------------------- SequenceClient: _wait, execute
\* times are tenths of a second; the clock is time.monotonic()
_MIN_DELAY == 15
_MAX_JITTER == 20

\* what random.uniform(0, _MAX_JITTER) returns
Jitters == {0, _MAX_JITTER - 1}

\* the time between two looks at the clock
Elapses == {5, 10}

\* _wait: the seconds to sleep, 0 when it returns at once
_wait(last_request_time, t, jitter) ==
    IF last_request_time = 0 THEN 0
    ELSE LET elapsed == t - last_request_time
             minimum == _MIN_DELAY + jitter
             remaining == minimum - elapsed
         IN  IF remaining > 0 THEN remaining ELSE 0

\* a thread that is not in execute()
NotCalling == [pc |-> "idle", wake |-> 0, request |-> 0]

ClientInit ==
    /\ deployment = "client"
    /\ TrackerIdle
    /\ now = 1000
    /\ ticks = 0
    /\ pending = << >>
    /\ nextId = 0
    /\ staged_this_turn = << >>
    /\ last_activity = 0
    /\ turn = "idle"
    /\ records = << >>
    /\ audit = << >>
    /\ calls = [i \in Ids |-> 0]
    /\ executed = [i \in Ids |-> 0]
    /\ left = [i \in Ids |-> << >>]
    /\ reply = Reply("none", 0, None, "none", FALSE)
    /\ requests = [th \in Threads |-> NotCalling]
    /\ memory = NoMemory
    /\ _message_timestamps = NoTimestamps
    /\ client = NewClient

client_frame == <<pending, staged_this_turn, last_activity, turn, records, audit,
                  calls, executed, left, reply, deployment, tvars, memory,
                  _message_timestamps>>

\* thread th enters execute() and runs _wait up to its sleep
Wait(th) ==
    /\ requests[th].pc = "idle"
    /\ nextId < MaxRequests
    /\ \E jitter \in Jitters :
         LET remaining == _wait(client._last_request_time, now, jitter)
         IN  requests' = [requests EXCEPT ![th] =
                            [pc |-> IF remaining > 0 THEN "sleeping" ELSE "ready",
                             wake |-> now + remaining, request |-> nextId + 1]]
    /\ nextId' = nextId + 1
    /\ UNCHANGED <<now, ticks, client, client_frame>>

\* time.sleep returned (not before the time asked for) and the request is sent
Post(th) ==
    /\ \/ requests[th].pc = "ready"
       \/ requests[th].pc = "sleeping" /\ now >= requests[th].wake
    /\ requests' = [requests EXCEPT ![th].pc = "posted"]
    /\ client' = [client EXCEPT !.log = Append(@, [request |-> requests[th].request,
                                                    sent |-> now, received |-> 0,
                                                    slept |-> requests[th].pc = "sleeping"])]
    /\ UNCHANGED <<now, ticks, nextId, client_frame>>

\* session.post returned a response, or raised (received stays 0)
Respond(th) ==
    /\ requests[th].pc = "posted"
    /\ \E outcome \in {"response", "raised"} :
         LET k == CHOOSE k \in 1..Len(client.log) :
                     client.log[k].request = requests[th].request
         IN  client' = IF outcome = "response"
                       THEN [_last_request_time |-> now,
                             log |-> [client.log EXCEPT ![k].received = now]]
                       ELSE client
    /\ requests' = [requests EXCEPT ![th] = NotCalling]
    /\ UNCHANGED <<now, ticks, nextId, client_frame>>

Elapse ==
    /\ ticks < MaxElapses
    /\ \E d \in Elapses : now' = now + d
    /\ ticks' = ticks + 1
    /\ UNCHANGED <<nextId, requests, client, client_frame>>

ClientNext ==
    \/ \E th \in Threads : Wait(th)
    \/ \E th \in Threads : Post(th)
    \/ \E th \in Threads : Respond(th)
    \/ Elapse

ClientSpec == ClientInit /\ [][ClientNext]_vars

\* C37: of any two requests sent through the client, the later one is sent
\* at least _MIN_DELAY after the response to the earlier one was received,
\* and the first request is sent without sleeping.
C37_MinimumDelayBetweenRequests ==
    /\ \A a \in 1..Len(client.log) : \A b \in (a + 1)..Len(client.log) :
          client.log[a].received # 0 =>
             client.log[b].sent - client.log[a].received >= _MIN_DELAY
    /\ Len(client.log) >= 1 => ~client.log[1].slept


\* ------------------------- the server's tracker and the SDK's, side by side
\* the API package's tracker keeps  records[day] = [entries]  and writes it
\* as it is
ApiFile(recs) == Object([d \in DOMAIN recs |-> FlatList(recs[d])])

\* the files that the API tracker left behind: none, one with a transfer of
\* today, one with transfers of today, of yesterday and of three days ago
ApiFiles ==
    { FileAbsent,
      ApiFile(0 :> << Entry(0, 1000000, 0) >>),
      ApiFile((-3 :> << Entry(0, 2500000, 0) >>) @@ (-1 :> << Entry(0, 2000000, 0) >>)
              @@ (0 :> << Entry(0, 1500000, 0), Entry(0, 100, 0) >>)) }

\* the API package's DailyLimitTracker(path) on such a file: _load, _prune_old
ApiDailyLimitTracker(f, t) ==
    LET days == _load(f).value.days
        kept == _prune_old(days, t)
    IN  [d \in DOMAIN kept |-> kept[d].entries]

CompatRecordAmounts == {100, 1000000, 1500000}
CompatCheckAmounts == {100, 1000000, 1000001}

\* nothing was asked yet; reopened: the SDK tracker was constructed on the
\* file of the API tracker
CompatIdle == [op |-> "none", amount_cents |-> 0, reopened |-> FALSE,
               sdk |-> [raised |-> FALSE, allowed |-> FALSE, remaining |-> 0],
               api |-> [allowed |-> FALSE, remaining |-> 0]]

\* both packages' trackers start on a copy of the same file
CompatInit ==
    /\ deployment = "compat"
    /\ now = 300
    /\ ticks = 0
    /\ pending = << >>
    /\ nextId = 0
    /\ staged_this_turn = << >>
    /\ last_activity = 0
    /\ turn = "idle"
    /\ audit = << >>
    /\ calls = [i \in Ids |-> 0]
    /\ executed = [i \in Ids |-> 0]
    /\ left = [i \in Ids |-> << >>]
    /\ reply = Reply("none", 0, None, "none", FALSE)
    /\ requests = [th \in Threads |-> Idle]
    /\ ComponentsIdle
    /\ only = [a \in Actors |-> [tracker |-> NoTracker, file |-> FileAbsent]]
    /\ returned = CompatIdle
    /\ \E f \in ApiFiles :
         LET c == DailyLimitTracker(f, server_max_daily_transfer_cents, now)
         IN  /\ records = ApiDailyLimitTracker(f, now)
             /\ tracker = c.tracker
             /\ limits_file = c.file

compat_frame == <<pending, staged_this_turn, last_activity, turn, audit, calls,
                  executed, left, reply, deployment, requests, cvars, only>>

\* record(amount_cents, transfer_id) on both
CompatRecord ==
    /\ nextId < MaxRecords
    /\ \E amount_cents \in CompatRecordAmounts :
         LET transfer_id == nextId + 1
             r == tracker_record([tracker |-> tracker, file |-> limits_file],
                                 amount_cents, transfer_id, None, now)
         IN  /\ nextId' = transfer_id
             /\ tracker' = r.tracker
             /\ limits_file' = r.file
             /\ records' = api_record(records, amount_cents, transfer_id, now)
             /\ returned' = [returned EXCEPT !.op = "record",
                                             !.amount_cents = amount_cents,
                                             !.sdk.raised = r.raised]
    /\ UNCHANGED <<now, ticks, compat_frame>>

\* check(amount_cents) on both
CompatCheck ==
    /\ \E amount_cents \in CompatCheckAmounts :
         LET c == tracker_check(tracker, amount_cents, None, now)
         IN  returned' = [returned EXCEPT !.op = "check",
                                          !.amount_cents = amount_cents,
                                          !.sdk = c,
                                          !.api = api_check(records, amount_cents, now)]
    /\ UNCHANGED <<now, ticks, nextId, records, tracker, limits_file, compat_frame>>

\* the SDK tracker is constructed anew, on the file that the API tracker wrote
Reopen ==
    /\ ~returned.reopened
    /\ LET c == DailyLimitTracker(ApiFile(records), server_max_daily_transfer_cents, now)
       IN  /\ tracker' = c.tracker
           /\ limits_file' = c.file
           /\ returned' = [CompatIdle EXCEPT !.op = "construct", !.reopened = TRUE,
                                             !.sdk.raised = c.raised]
    /\ UNCHANGED <<now, ticks, nextId, records, compat_frame>>

CompatNextDay ==
    /\ ticks < MaxTicks
    /\ ticks' = ticks + 1
    /\ now' = now + 86400
    /\ UNCHANGED <<nextId, records, tracker, limits_file, returned, compat_frame>>

CompatNext ==
    \/ CompatRecord
    \/ CompatCheck
    \/ Reopen
    \/ CompatNextDay

CompatSpec == CompatInit /\ [][CompatNext]_vars

\* C35: after the same record calls, check() of the SDK tracker without a
\* user id returns what check() of the API package's tracker returns, also
\* when the SDK tracker was constructed on the file that the API tracker
\* wrote; no call of the SDK tracker raises.
C35_GlobalTrackerCompatible ==
    /\ ~returned.sdk.raised
    /\ tracker.alive
    /\ returned.op = "check" =>
          /\ returned.sdk.allowed = returned.api.allowed
          /\ returned.sdk.remaining = returned.api.remaining

\* a tracker of the SDK, constructed on the API tracker's file with a
\* transfer recorded today, refused the amount that the API tracker refused
C35_Witness ==
    /\ deployment = "compat"
    /\ returned.op = "check" /\ returned.reopened
    /\ nextId >= 1
    /\ ~returned.sdk.allowed /\ ~returned.api.allowed
    /\ returned.sdk.remaining < server_max_daily_transfer_cents


C39_RefusalChangesNothing ==
    [][(reply'.op = "confirm" /\ reply'.result = "daily_limit") =>
          /\ ~reply'.remote
          /\ UNCHANGED <<pending, records, audit, calls, executed, left>>
          /\ reply'.id \in DOMAIN pending']_vars

\* a transfer staged without a user id, and so without a check, was refused
\* to the user who had spent 24,000.00 today, and is still pending
C39_Witness ==
    /\ deployment = "bot"
    /\ reply.op = "confirm" /\ reply.result = "daily_limit" /\ reply.caller = "202"
    /\ reply.id \in DOMAIN pending /\ pending[reply.id].user_id = None
    /\ calls[reply.id] = 0 /\ left[reply.id] = << >>
    /\ audit[Len(audit)].event_type = "transfer_staged"
    /\ SumAmounts(TodayOf(records, "202", now)) + pending[reply.id].amount_cents
          > max_daily_transfer_cents


====
